---- MODULE Spec2Model ----
(***************************************************************************)
(* A model of rsinit: the kernel command-line parser (src/src/cmdline.rs)  *)
(* and the boot pipeline InitContext::run (src/src/init.rs).               *)
(*                                                                         *)
(* Text is modelled as a sequence of one-character strings, so that the    *)
(* scanner of from_string works on characters and slices exactly as the    *)
(* code does.  Option<T> is a sequence of length 0 (None) or 1 (Some).     *)
(***************************************************************************)
EXTENDS Integers, Sequences, FiniteSets, TLC

VARIABLES
    family,      \* which input family the command line was drawn from
    items,       \* the tokens the command line was written from (input, ghost)
    terminated,  \* whether the last token is followed by its separator
    cmdline,     \* the text handed to from_string
    callbacks,   \* self.callbacks.0: the registered cmdline handlers, in order
    pstate,      \* "called" before from_string ran, "returned" after
    result,      \* the Result<CmdlineOptions> from_string returned
    scanned,     \* the local `options` when the scan loop ended (line 195)
    dispatched,  \* the (key, value) pairs passed to parse_option, in order
    calls,       \* the handler invocations (handler index, key, value), in order
    pnp,         \* what read_file("/proc/net/pnp") returned, when it was read
    pc,          \* InitContext: "start" before InitContext::new is called,
                 \* "new" after it returned Ok, then the phase of
                 \* run that is about to start or running, then "done"
    phase_log,   \* the phases of run started so far, in order
    done_log,    \* the phases of run that completed with Ok, in order
    ops,         \* the fallible operations run has performed, in order
    run_result,  \* "running", "replaced" (execv succeeded) or "err"
    features,    \* the cargo features the binary was built with
    ctx_options, \* InitContext.options
    post_setup_cb,      \* callbacks.post_setup_cb, as callback ids in order
    post_root_mount_cb, \* callbacks.post_root_mount_cb, likewise
    cb_next,     \* index of the next callback of the list being run
    args_os,     \* what env::args_os() returned, when start_init read it
    finalized,   \* the number of times finalize() has run
    exit,        \* how the process ended: "no" while it has not
    w_pc,        \* wait_for_device: "idle", "check", "sleep", "ok" or "timeout"
    w_i,         \* the iterations of its loop completed so far
    w_exists,    \* whether the awaited path exists right now (environment)
    w_checks,    \* the path.exists() calls made so far
    w_hits,      \* those of them that found the path
    w_sleeps,    \* the thread::sleep calls made so far
    w_slept,     \* the milliseconds slept so far
    mountinfo,   \* shutdown: the lines of /proc/self/mountinfo (input)
    sd_pc,       \* shutdown: "idle", "read", "scan", "umount", "reboot", "done"
    sd_line,     \* the number of lines of mountinfo scanned so far
    mounts,      \* the BinaryHeap `mounts`, as the vector that holds it
    umounted,    \* the umount calls made so far: mount point and outcome
    sd_result    \* "running", then what shutdown returned or did

parse_vars == <<family, items, terminated, cmdline, callbacks, pstate, result,
                scanned, dispatched, calls, pnp>>
proc_vars == <<args_os, finalized, exit>>
run_vars == <<pc, phase_log, done_log, ops, run_result, features,
              ctx_options,
              post_setup_cb, post_root_mount_cb, cb_next, proc_vars>>
wait_vars == <<w_pc, w_i, w_exists, w_checks, w_hits, w_sleeps, w_slept>>
shut_vars == <<mountinfo, sd_pc, sd_line, mounts, umounted, sd_result>>
vars == <<parse_vars, run_vars, wait_vars, shut_vars>>

----------------------------------------------------------------------------
(* Bounds of the model                                                     *)

MaxTokens == 3
MaxCallbacks == 2

\* the most arguments the process gets after its own name
MaxArgs == 2

\* the most lines /proc/self/mountinfo holds
MaxMounts == 3

\* the length of the longest value in /verity-params
LongLen == 1020

----------------------------------------------------------------------------
(* Text helpers: Rust's str operations on character sequences              *)

None == <<>>
Some(v) == <<v>>

\* &s[a..b] : 0-based, half-open
Slice(s, a, b) == SubSeq(s, a + 1, b)

\* str::contains(char)
Contains(s, c) == \E i \in 1..Len(s) : s[i] = c

\* str::contains(&str)
ContainsStr(s, t) ==
    \E i \in 0..(Len(s) - Len(t)) : SubSeq(s, i + 1, i + Len(t)) = t

\* str::find(char): the 0-based index of the first c
Find(s, c) == CHOOSE i \in 0..(Len(s) - 1) :
                  /\ s[i + 1] = c
                  /\ \A j \in 0..(i - 1) : s[j + 1] # c

\* str::split_once(char): None, or Some((before, after)) around the first c
SplitOnce(s, c) ==
    IF Contains(s, c)
    THEN Some(<<Slice(s, 0, Find(s, c)), Slice(s, Find(s, c) + 1, Len(s))>>)
    ELSE None

K_root == <<"r", "o", "o", "t">>
K_rootfstype == <<"r", "o", "o", "t", "f", "s", "t", "y", "p", "e">>
K_rootflags == <<"r", "o", "o", "t", "f", "l", "a", "g", "s">>
K_ro == <<"r", "o">>
K_rw == <<"r", "w">>
K_nfsroot == <<"n", "f", "s", "r", "o", "o", "t">>
K_init == <<"i", "n", "i", "t">>

DEV_NFS == <<"/", "d", "e", "v", "/", "n", "f", "s">>
NFS == <<"n", "f", "s">>
NOLOCK == <<"n", "o", "l", "o", "c", "k">>
ADDR == <<",", "a", "d", "d", "r", "=">>
BOOTSERVER == <<"b", "o", "o", "t", "s", "e", "r", "v", "e", "r">>
NINE_P == <<"9", "p">>
DEV_DM == <<"/", "d", "e", "v", "/", "d", "m", "-">>
TRANS_USBG == <<"t", "r", "a", "n", "s", "=", "u", "s", "b", "g">>
\* the nul byte
NUL == "^@"

SBIN_INIT == <<"/", "s", "b", "i", "n", "/", "i", "n", "i", "t">>

Ok(v) == [ok |-> TRUE, v |-> v]
Err(e) == [ok |-> FALSE, e |-> e]

----------------------------------------------------------------------------
(* cmdline.rs                                                              *)

\* impl Default for CmdlineOptions; rootfsflags is the set of MsFlags bits
DefaultOptions_Rw ==
    [root |-> None, rootfstype |-> None, rootflags |-> None,
     rootfsflags |-> {}, nfsroot |-> None, init |-> SBIN_INIT,
     cleanup |-> TRUE]

DefaultOptions ==
    [root |-> None, rootfstype |-> None, rootflags |-> None,
     rootfsflags |-> {"MS_RDONLY"}, nfsroot |-> None, init |-> SBIN_INIT,
     cleanup |-> TRUE]

EnsureValue_Lenient(key, value) ==
    IF value = None THEN Ok(<<>>) ELSE Ok(value[1])

\* ensure_value: value.ok_or("Cmdline option '{key}' must have an argument!")
EnsureValue(key, value) ==
    IF value = None
    THEN Err([kind |-> "must have an argument", key |-> key])
    ELSE Ok(value[1])

\* A cmdline handler as the one of tests::test_callbacks: for the key it
\* wants it requires a value (ensure_value), every other key it ignores.
CallbackResult(cb, key, value) ==
    IF key = cb.wants THEN EnsureValue(key, value) ELSE Ok(<<>>)

\* The loop `for cb in callbacks { cb(key, value)? }` from handler n on;
\* st.calls records each invocation, st.err the error that ended the loop.
RECURSIVE CallbackLoop(_, _, _, _, _)
CallbackLoop(cbs, n, key, value, st) ==
    IF n > Len(cbs)
    THEN st
    ELSE LET r == CallbackResult(cbs[n], key, value)
             st1 == [st EXCEPT !.calls = Append(@, [cb |-> n, key |-> key,
                                                      value |-> value])]
         IN  IF r.ok
             THEN CallbackLoop(cbs, n + 1, key, value, st1)
             ELSE [st1 EXCEPT !.err = Some(r.e)]

RunCallbacks_All(cbs, key, value, st) ==
    LET RECURSIVE Go(_, _)
        Go(n, s) ==
            IF n > Len(cbs)
            THEN s
            ELSE LET r == CallbackResult(cbs[n], key, value)
                     s1 == [s EXCEPT !.calls = Append(@, [cb |-> n, key |-> key,
                                                          value |-> value])]
                 IN  Go(n + 1, IF r.ok \/ s1.err # None THEN s1
                               ELSE [s1 EXCEPT !.err = Some(r.e)])
    IN  Go(1, st)

RunCallbacks_Wanted(cbs, key, value, st) ==
    LET RECURSIVE Go(_, _)
        Go(n, s) ==
            IF n > Len(cbs)
            THEN s
            ELSE IF key # cbs[n].wants
            THEN Go(n + 1, s)
            ELSE LET r == CallbackResult(cbs[n], key, value)
                     s1 == [s EXCEPT !.calls = Append(@, [cb |-> n, key |-> key,
                                                          value |-> value])]
                 IN  IF r.ok THEN Go(n + 1, s1)
                     ELSE [s1 EXCEPT !.err = Some(r.e)]
    IN  Go(1, st)

\* parse_option, arm `_`: every handler in registration order, `?` on each
RunCallbacks(cbs, key, value, st) == CallbackLoop(cbs, 1, key, value, st)

\* A recognized arm of parse_option that needs a value
SetRequired(field, key, value, st, wrap) ==
    LET r == EnsureValue(key, value)
    IN  IF r.ok
        THEN [st EXCEPT !.options[field] = IF wrap THEN Some(r.v) ELSE r.v]
        ELSE [st EXCEPT !.err = Some(r.e)]

ParseOption_FirstWins(key, value, st, cbs) ==
    CASE key = K_root /\ st.options.root = None ->
             SetRequired("root", key, value, st, TRUE)
      [] key = K_rootfstype /\ st.options.rootfstype = None ->
             SetRequired("rootfstype", key, value, st, TRUE)
      [] key = K_rootflags /\ st.options.rootflags = None ->
             [st EXCEPT !.options.rootflags = value]
      [] key = K_ro /\ st.options.rootfsflags = DefaultOptions.rootfsflags ->
             [st EXCEPT !.options.rootfsflags = @ \cup {"MS_RDONLY"}]
      [] key = K_rw /\ st.options.rootfsflags = DefaultOptions.rootfsflags ->
             [st EXCEPT !.options.rootfsflags = @ \ {"MS_RDONLY"}]
      [] key = K_nfsroot /\ st.options.nfsroot = None ->
             SetRequired("nfsroot", key, value, st, TRUE)
      [] key = K_init /\ st.options.init = SBIN_INIT ->
             SetRequired("init", key, value, st, FALSE)
      [] key \in {K_root, K_rootfstype, K_rootflags, K_ro, K_rw, K_nfsroot,
                  K_init} -> st
      [] OTHER -> RunCallbacks(cbs, key, value, st)

ParseOption_OfferAll(key, value, st, cbs) ==
    LET st1 ==
          CASE key = K_root -> SetRequired("root", key, value, st, TRUE)
            [] key = K_rootfstype ->
                   SetRequired("rootfstype", key, value, st, TRUE)
            [] key = K_rootflags -> [st EXCEPT !.options.rootflags = value]
            [] key = K_ro ->
                   [st EXCEPT !.options.rootfsflags = @ \cup {"MS_RDONLY"}]
            [] key = K_rw ->
                   [st EXCEPT !.options.rootfsflags = @ \ {"MS_RDONLY"}]
            [] key = K_nfsroot -> SetRequired("nfsroot", key, value, st, TRUE)
            [] key = K_init -> SetRequired("init", key, value, st, FALSE)
            [] OTHER -> st
    IN  IF st1.err # None THEN st1 ELSE RunCallbacks(cbs, key, value, st1)

\* parse_option(key, value, options, callbacks); st carries the options, the
\* error the call returned (None when Ok) and the handler invocations.
ParseOption(key, value, st, cbs) ==
    CASE key = K_root -> SetRequired("root", key, value, st, TRUE)
      [] key = K_rootfstype -> SetRequired("rootfstype", key, value, st, TRUE)
      [] key = K_rootflags -> [st EXCEPT !.options.rootflags = value]
      [] key = K_ro -> [st EXCEPT !.options.rootfsflags = @ \cup {"MS_RDONLY"}]
      [] key = K_rw -> [st EXCEPT !.options.rootfsflags = @ \ {"MS_RDONLY"}]
      [] key = K_nfsroot -> SetRequired("nfsroot", key, value, st, TRUE)
      [] key = K_init -> SetRequired("init", key, value, st, FALSE)
      [] OTHER -> RunCallbacks(cbs, key, value, st)

\* The loop over the lines of /proc/net/pnp in parse_nfsroot, from line n on:
\* the first line whose key is "bootserver" supplies the host, then `break`.
RECURSIVE PnpLoop_NoBreak(_, _, _)
PnpLoop_NoBreak(lines, n, acc) ==
    IF n > Len(lines)
    THEN acc
    ELSE LET kv == SplitOnce(lines[n], " ")
         IN  IF kv # None /\ kv[1][1] = BOOTSERVER
             THEN PnpLoop_NoBreak(lines, n + 1,
                      [nfsroot |-> kv[1][2] \o <<":">> \o acc.nfsroot,
                       rootflags |-> acc.rootflags \o kv[1][2]])
             ELSE PnpLoop_NoBreak(lines, n + 1, acc)

RECURSIVE PnpLoop(_, _, _)
PnpLoop(lines, n, acc) ==
    IF n > Len(lines)
    THEN acc
    ELSE LET kv == SplitOnce(lines[n], " ")
         IN  IF kv # None /\ kv[1][1] = BOOTSERVER
             THEN [nfsroot |-> kv[1][2] \o <<":">> \o acc.nfsroot,
                   rootflags |-> acc.rootflags \o kv[1][2]]
             ELSE PnpLoop(lines, n + 1, acc)

\* str::rsplit_once(char): None, or Some((before, after)) around the last c
RSplitOnce(s, c) ==
    IF Contains(s, c)
    THEN LET i == CHOOSE k \in 0..(Len(s) - 1) :
                      /\ s[k + 1] = c
                      /\ \A j \in (k + 1)..(Len(s) - 1) : s[j + 1] # c
         IN  Some(<<Slice(s, 0, i), Slice(s, i + 1, Len(s))>>)
    ELSE None

NfsrootSplit_Last(nfsroot_option) == RSplitOnce(nfsroot_option, ",")

\* parse_nfsroot: nfsroot_option.split_once(',')
NfsrootSplit(nfsroot_option) == SplitOnce(nfsroot_option, ",")

\* parse_nfsroot(options); file is what read_file("/proc/net/pnp") yields if
\* it is called: None when the read fails, Some(lines) otherwise.
\* Returns the Result, and whether the file was read.
ParseNfsroot(options, file) ==
    IF options.nfsroot = None
    THEN [res |-> Err([kind |-> "Missing nfsroot command-line option!",
                       key |-> <<>>]),
          read |-> FALSE]
    ELSE
      LET nfsroot_option == options.nfsroot[1]
          split == NfsrootSplit(nfsroot_option)
          flags0 == IF split = None THEN NOLOCK
                    ELSE NOLOCK \o <<",">> \o split[1][2]
          nfsroot0 == IF split = None THEN nfsroot_option ELSE split[1][1]
          flags1 == flags0 \o ADDR
          done(acc) ==
              Ok([options EXCEPT !.root = Some(acc.nfsroot),
                                 !.rootflags = Some(acc.rootflags),
                                 !.rootfstype = Some(NFS)])
      IN  IF ~Contains(nfsroot0, ":")
          THEN IF file = None
               THEN [res |-> Err([kind |-> "Failed to read /proc/net/pnp",
                                  key |-> <<>>]),
                     read |-> TRUE]
               ELSE [res |-> done(PnpLoop(file[1], 1,
                                     [nfsroot |-> nfsroot0,
                                      rootflags |-> flags1])),
                     read |-> TRUE]
          ELSE LET bootserver == SplitOnce(nfsroot0, ":")[1][1]
               IN  [res |-> done([nfsroot |-> nfsroot0,
                                  rootflags |-> flags1 \o bootserver]),
                    read |-> FALSE]

\* from_string, lines 145-149: the locals before the scan loop, with the
\* error a `?` returned (None while scanning), and the two logs
InitScan ==
    [have_value |-> FALSE, quoted |-> FALSE, key |-> <<>>, start |-> 0,
     options |-> DefaultOptions, err |-> None, calls |-> <<>>,
     dispatched |-> <<>>]

\* from_string: the end of a token at index i (lines 167-186)
EndToken(text, i, s, cbs) ==
    LET key == IF ~s.have_value THEN Slice(text, s.start, i) ELSE s.key
        value == IF s.have_value THEN Some(Slice(text, s.start, i)) ELSE None
        s1 == IF key # <<>>
              THEN ParseOption(key, value,
                       [s EXCEPT !.dispatched =
                                     Append(@, [key |-> key, value |-> value])],
                       cbs)
              ELSE s
    IN  IF s1.err # None
        THEN s1
        ELSE [s1 EXCEPT !.key = <<>>, !.have_value = FALSE, !.start = i + 1]

ScanChar_EverySplits(text, i, s, cbs) ==
    LET c == text[i + 1]
    IN  CASE c = "=" ->
                 [s EXCEPT !.key = Slice(text, s.start, i), !.start = i + 1,
                           !.have_value = TRUE]
          [] c = "\"" -> [s EXCEPT !.quoted = ~@, !.start = i + 1]
          [] c \in {" ", "\n"} ->
                 IF ~s.quoted THEN EndToken(text, i, s, cbs) ELSE s
          [] OTHER -> s

\* from_string: one iteration of the scan loop, on the character at index i
ScanChar(text, i, s, cbs) ==
    LET c == text[i + 1]
    IN  CASE c = "=" ->
                 IF ~s.have_value
                 THEN [s EXCEPT !.key = Slice(text, s.start, i),
                                !.start = i + 1, !.have_value = TRUE]
                 ELSE s
          [] c = "\"" -> [s EXCEPT !.quoted = ~@, !.start = i + 1]
          [] c \in {" ", "\n"} ->
                 IF ~s.quoted THEN EndToken(text, i, s, cbs) ELSE s
          [] OTHER -> s

\* from_string: `for (i, c) in cmdline.char_indices()`, left by `?` on error
RECURSIVE ScanLoop(_, _, _, _)
ScanLoop(text, i, s, cbs) ==
    IF i >= Len(text) \/ s.err # None
    THEN s
    ELSE ScanLoop(text, i + 1, ScanChar(text, i, s, cbs), cbs)

NfsIndicated_RootOnly(options) == options.root = Some(DEV_NFS)

\* from_string, lines 195-196: the condition under which parse_nfsroot runs
NfsIndicated(options) ==
    \/ options.root = Some(DEV_NFS)
    \/ options.rootfstype = Some(NFS)

\* from_string, lines 195-201: after the scan loop s, NFS resolution if
\* indicated; returns the Result with the observations of the call
AfterScan(s, file) ==
    LET base == [scanned |-> s.options, dispatched |-> s.dispatched,
                 calls |-> s.calls]
    IN  IF s.err # None
        THEN base @@ [res |-> Err(s.err[1]), read |-> FALSE]
        ELSE IF NfsIndicated(s.options)
             THEN base @@ ParseNfsroot(s.options, file)
             ELSE base @@ [res |-> Ok(s.options), read |-> FALSE]

\* CmdlineOptions::from_string(cmdline) with self.callbacks = cbs
FromString(text, cbs, file) ==
    AfterScan(ScanLoop(text, 0, InitScan, cbs), file)

----------------------------------------------------------------------------
(* The inputs of from_string                                               *)

\* A token as written on the command line: key, optionally '=' and a value
\* (in double quotes when quoted), and the separator that follows it.
Tok(k, v) == [key |-> k, hasval |-> TRUE, val |-> v, quoted |-> FALSE,
              sep |-> " "]
Flag(k) == [key |-> k, hasval |-> FALSE, val |-> <<>>, quoted |-> FALSE,
            sep |-> " "]
Quoted(k, v) == [key |-> k, hasval |-> TRUE, val |-> v, quoted |-> TRUE,
                 sep |-> " "]

K_x == <<"x">>
K_y == <<"y">>
K_z == <<"z">>

V_a == <<"/", "a">>
V_b == <<"/", "b">>
V_9p == <<"9", "p">>
V_ext == <<"e", "4">>
V_trans == <<"t", "=", "u", ",", "c", "=", "l">>
V_z == <<"z">>
V_v == <<"v">>
V_one == <<"1">>
V_a_b == <<"a", " ", "b">>
V_nfs_full == <<"h", ":", "/", "p", ",", "v", "3", ",", "t">>
V_nfs_host == <<"h", ":", "/", "p">>
V_nfs_path_opts == <<"/", "p", ",", "v", "3">>
V_nfs_path == <<"/", "p">>

\* Families of command lines; a command line is up to MaxTokens tokens of
\* one family.
PoolFields ==
    {Tok(K_root, V_a), Tok(K_root, V_b), Tok(K_rootfstype, V_9p),
     Tok(K_rootfstype, V_ext), Tok(K_rootflags, V_trans),
     Tok(K_rootflags, V_z), Flag(K_rootflags), Flag(K_z)}

PoolFlags ==
    {Tok(K_init, V_a), Tok(K_init, V_b), Flag(K_ro), Flag(K_rw),
     Tok(K_ro, V_one), Tok(K_rw, V_one), Tok(K_nfsroot, V_nfs_host),
     Tok(K_nfsroot, V_nfs_path), Tok(K_z, V_v)}

PoolNfs ==
    {Tok(K_root, DEV_NFS), Tok(K_rootfstype, NFS), Tok(K_root, V_a),
     Tok(K_nfsroot, V_nfs_full), Tok(K_nfsroot, V_nfs_host),
     Tok(K_nfsroot, V_nfs_path_opts), Tok(K_nfsroot, V_nfs_path),
     Tok(K_rootflags, V_z), Flag(K_rw)}

PoolMissing ==
    {Flag(K_root), Flag(K_rootfstype), Flag(K_nfsroot), Flag(K_init),
     Tok(K_root, V_a), Tok(K_init, V_b), Flag(K_rw), Flag(K_z)}

PoolHandlers ==
    {Tok(K_x, V_v), Flag(K_x), Tok(K_y, V_v), Flag(K_y), Flag(K_z),
     Tok(K_root, V_a)}

PoolQuotes ==
    {Quoted(K_root, V_a_b), Quoted(K_x, V_a_b), Tok(K_root, V_a),
     [Flag(K_rw) EXCEPT !.sep = "\n"], Flag(<<>>), Tok(K_x, V_v)}

\* Tokens of every shape: empty, with an empty key, with the key in double
\* quotes, without the value the key needs
PoolShapes ==
    {Flag(K_rw), Tok(K_x, V_v), Flag(<<>>), Tok(<<>>, V_v),
     Flag(<<"\"">> \o K_rw \o <<"\"">>), Flag(K_init),
     [Tok(K_root, V_a) EXCEPT !.sep = "\n"]}

Families ==
    {"fields", "flags", "nfs", "missing", "handlers", "quotes", "shapes"}

Pool(f) ==
    CASE f = "fields" -> PoolFields
      [] f = "flags" -> PoolFlags
      [] f = "nfs" -> PoolNfs
      [] f = "missing" -> PoolMissing
      [] f = "handlers" -> PoolHandlers
      [] f = "quotes" -> PoolQuotes
      [] f = "shapes" -> PoolShapes

\* Handlers as registered by add_cmdline_cb: each wants one key
CallbackSets(f) ==
    CASE f = "handlers" ->
             {<<>>, <<[wants |-> K_x]>>, <<[wants |-> K_x], [wants |-> K_y]>>}
      [] f = "quotes" -> {<<[wants |-> K_x]>>}
      [] OTHER -> {<<>>}

\* The text of a token, without its separator
Text(t) ==
    t.key \o (IF t.hasval
              THEN <<"=">> \o (IF t.quoted
                               THEN <<"\"">> \o t.val \o <<"\"">>
                               ELSE t.val)
              ELSE <<>>)

\* The command line written from the tokens ts; the last token's separator
\* is left out when term is FALSE
RECURSIVE CmdlineOf(_, _)
CmdlineOf(ts, term) ==
    IF ts = <<>>
    THEN <<>>
    ELSE CmdlineOf(SubSeq(ts, 1, Len(ts) - 1), TRUE)
         \o Text(ts[Len(ts)])
         \o (IF term THEN <<ts[Len(ts)].sep>> ELSE <<>>)

SeqsUpTo(S, n) == UNION {[1..k -> S] : k \in 0..n}

\* The contents of /proc/net/pnp: unreadable, or its lines
L_proto == <<"#", "P", ":", " ", "D">>
L_nameserver == <<"n", "s", " ", "1">>
L_bootserver_s == BOOTSERVER \o <<" ", "s">>
L_bootserver_t == BOOTSERVER \o <<" ", "t">>
L_bootserver_bare == BOOTSERVER

PnpFiles ==
    {None, Some(<<>>), Some(<<L_proto, L_bootserver_s, L_bootserver_t>>),
     Some(<<L_bootserver_bare, L_nameserver>>),
     Some(<<L_nameserver, L_bootserver_t, L_bootserver_s>>)}

NotReturned == Err([kind |-> "not returned", key |-> <<>>])
NotRead == None

----------------------------------------------------------------------------
(* The parser as a state machine: from_string is called once               *)

ParseInit ==
    /\ family \in Families
    /\ items \in SeqsUpTo(Pool(family), MaxTokens)
    /\ terminated \in (IF items = <<>> THEN {TRUE} ELSE BOOLEAN)
    /\ cmdline = CmdlineOf(items, terminated)
    /\ callbacks \in CallbackSets(family)
    /\ pstate = "called"
    /\ result = NotReturned
    /\ scanned = DefaultOptions
    /\ dispatched = <<>>
    /\ calls = <<>>
    /\ pnp = NotRead

\* The pipeline is not running while from_string is examined on its own
RunIdle ==
    /\ pc = "idle"
    /\ phase_log = <<>>
    /\ done_log = <<>>
    /\ ops = <<>>
    /\ run_result = "running"
    /\ features = {}
    /\ ctx_options = DefaultOptions
    /\ post_setup_cb = <<>>
    /\ post_root_mount_cb = <<>>
    /\ cb_next = 1
    /\ args_os = NotRead
    /\ finalized = 0
    /\ exit = "no"

WaitIdle ==
    /\ w_pc = "idle"
    /\ w_i = 0
    /\ w_exists = FALSE
    /\ w_checks = 0
    /\ w_hits = 0
    /\ w_sleeps = 0
    /\ w_slept = 0

ShutIdle ==
    /\ mountinfo = <<>>
    /\ sd_pc = "idle"
    /\ sd_line = 0
    /\ mounts = <<>>
    /\ umounted = <<>>
    /\ sd_result = "running"

\* CmdlineOptions::from_string(cmdline)
FromStringCall ==
    /\ pstate = "called"
    /\ \E file \in PnpFiles :
         LET r == FromString(cmdline, callbacks, file)
         IN  /\ (r.read \/ file = None)   \* an unread file makes no difference
             /\ result' = r.res
             /\ scanned' = r.scanned
             /\ dispatched' = r.dispatched
             /\ calls' = r.calls
             /\ pnp' = IF r.read THEN Some(file) ELSE NotRead
    /\ pstate' = "returned"
    /\ UNCHANGED <<family, items, terminated, cmdline, callbacks>>
    /\ UNCHANGED run_vars
    /\ UNCHANGED wait_vars
    /\ UNCHANGED shut_vars

ParseNext == FromStringCall

ParseSpecInit == ParseInit /\ RunIdle /\ WaitIdle /\ ShutIdle

ParseSpec == ParseSpecInit /\ [][ParseNext]_vars

\* One fallible operation run performed: the phase it belongs to, its name,
\* its argument and whether it returned Ok
Op(phase, name, arg, ok) ==
    [phase |-> phase, op |-> name, arg |-> arg, ok |-> ok]

\* The operations of list that ran, in order, when the one at index f
\* failed (f = 0: none failed): `?` returns at the first Err
Ran(phase, list, f) ==
    [i \in 1..(IF f = 0 THEN Len(list) ELSE f) |->
        Op(phase, list[i], 0, i # f)]

\* An operation about to run: its name and its argument
Step(name, arg) == [op |-> name, arg |-> arg]

\* Operations that are recorded by name only
Steps(names) == [i \in 1..Len(names) |-> Step(names[i], 0)]

\* Ran, for operations that carry their arguments
RanSteps(phase, steps, f) ==
    [i \in 1..(IF f = 0 THEN Len(steps) ELSE f) |->
        Op(phase, steps[i].op, steps[i].arg, i # f)]

----------------------------------------------------------------------------
(* dmverity.rs                                                             *)

DM_VERSION_MAJOR == 4
DM_MAX_TYPE_NAME == 16
DM_NAME_LEN == 128
DM_UUID_LEN == 129
DM_READONLY_FLAG == 1
ParamsLen == 1024

\* size_of::<DmIoctl>(): version [u32; 3], seven u32, dev_t (u64), name,
\* uuid, data [u8; 7]; repr(C) adds no padding
SizeOfDmIoctl == 3 * 4 + 7 * 4 + 8 + DM_NAME_LEN + DM_UUID_LEN + 7

\* size_of::<DmTargetSpec>(): two u64, two u32, target_type
SizeOfDmTargetSpec == 2 * 8 + 2 * 4 + DM_MAX_TYPE_NAME

\* size_of::<DmTableLoad>(): header, target_spec, params [u8; 1024]
SizeOfDmTableLoad == SizeOfDmIoctl + SizeOfDmTargetSpec + ParamsLen

\* DmIoctl::default(): the fields the code sets afterwards
DefaultDmIoctl ==
    [version |-> <<0, 0, 0>>, data_size |-> 0, data_start |-> 0,
     target_count |-> 0, flags |-> 0, dev |-> 0, name |-> <<>>, uuid |-> <<>>]

\* init_header(header, size, flags, uuid)
InitHeader_StartZero(header, size, flags, uuid) ==
    [header EXCEPT !.version[1] = DM_VERSION_MAJOR, !.data_size = size,
                   !.flags = flags, !.uuid = uuid]

InitHeader(header, size, flags, uuid) ==
    [header EXCEPT !.version[1] = DM_VERSION_MAJOR, !.data_size = size,
                   !.data_start = SizeOfDmIoctl, !.flags = flags,
                   !.uuid = uuid]

DigitValue(c) ==
    CASE c = "0" -> 0 [] c = "1" -> 1 [] c = "2" -> 2 [] c = "3" -> 3
      [] c = "4" -> 4 [] c = "5" -> 5 [] c = "6" -> 6 [] c = "7" -> 7
      [] c = "8" -> 8 [] c = "9" -> 9

Digits == {"0", "1", "2", "3", "4", "5", "6", "7", "8", "9"}

\* str::parse::<u64>(): None for an empty string or a non-digit; the inputs
\* of the model stay far below u64::MAX
ParseU64(str) ==
    LET body == IF str # <<>> /\ str[1] = "+" THEN Tail(str) ELSE str
    IN  IF body = <<>> \/ \E i \in 1..Len(body) : body[i] \notin Digits
        THEN None
        ELSE LET RECURSIVE V(_)
                 V(n) == IF n = 0 THEN 0
                         ELSE 10 * V(n - 1) + DigitValue(body[n])
             IN  Some(V(Len(body)))

VERITY_DATA_BLOCKS == <<"VERITY_DATA_BLOCKS">>
VERITY_DATA_SECTORS == <<"VERITY_DATA_SECTORS">>
VERITY_DATA_BLOCK_SIZE == <<"VERITY_DATA_BLOCK_SIZE">>
VERITY_HASH_BLOCK_SIZE == <<"VERITY_HASH_BLOCK_SIZE">>
VERITY_HASH_ALGORITHM == <<"VERITY_HASH_ALGORITHM">>
VERITY_SALT == <<"VERITY_SALT">>
VERITY_ROOT_HASH == <<"VERITY_ROOT_HASH">>

\* The variables prepare_dmverity fills from /verity-params, all ""
NoVerityParams ==
    [data_blocks |-> <<>>, data_sectors |-> <<>>, data_block_size |-> <<>>,
     hash_block_size |-> <<>>, hash_algorithm |-> <<>>, salt |-> <<>>,
     root_hash |-> <<>>]

\* The loop over the lines of /verity-params; a line is its key in one
\* piece, then the characters that follow it
RECURSIVE VerityParams(_, _, _)
VerityParams(lines, n, acc) ==
    IF n > Len(lines)
    THEN acc
    ELSE LET kv == SplitOnce(lines[n], "=")
             key == kv[1][1]
             value == kv[1][2]
             next ==
               IF kv = None THEN acc
               ELSE CASE key = VERITY_DATA_BLOCKS ->
                             [acc EXCEPT !.data_blocks = value]
                      [] key = VERITY_DATA_SECTORS ->
                             [acc EXCEPT !.data_sectors = value]
                      [] key = VERITY_DATA_BLOCK_SIZE ->
                             [acc EXCEPT !.data_block_size = value]
                      [] key = VERITY_HASH_BLOCK_SIZE ->
                             [acc EXCEPT !.hash_block_size = value]
                      [] key = VERITY_HASH_ALGORITHM ->
                             [acc EXCEPT !.hash_algorithm = value]
                      [] key = VERITY_SALT -> [acc EXCEPT !.salt = value]
                      [] key = VERITY_ROOT_HASH ->
                             [acc EXCEPT !.root_hash = value]
                      [] OTHER -> acc
         IN  VerityParams(lines, n + 1, next)

UuidPrefix == <<"rsinit-verity-root-">>
UuidPrefixLen == 19
RandHexLen == 32

\* uuid_str = "rsinit-verity-root-" + hex(rand) + "-" + the part of
\* root_device after its last '/', cut to DM_UUID_LEN - 1 bytes
Uuid(rand, root_device) ==
    LET sp == RSplitOnce(root_device, "/")
        base == IF sp = None THEN root_device ELSE sp[1][2]
        room == (DM_UUID_LEN - 1) - (UuidPrefixLen + RandHexLen + 1)
    IN  [prefix |-> UuidPrefix, rand |-> rand,
         base |-> SubSeq(base, 1, IF Len(base) < room THEN Len(base) ELSE room)]

\* The table line of the verity target
VerityTable(root_device, vp) ==
    <<<<"1">>, root_device, root_device, vp.data_block_size,
      vp.hash_block_size, vp.data_blocks, vp.data_blocks, vp.hash_algorithm,
      vp.root_hash, vp.salt, <<"1">>, <<"ignore_zero_blocks">>>>

DmErr(kind) == Err([kind |-> kind, key |-> <<>>])

\* A panic inside prepare_dmverity: the function does not return
DmPanic == DmErr("panic")

IsPanic(res) == ~res.ok /\ res.e.kind = "panic"

\* dst[..src.len()].copy_from_slice(src) into a field of cap bytes: the
\* range expression panics when src is longer than the field
Copy(field, len, cap) ==
    Op("prepare_aux", "copy_from_slice",
       [field |-> field, len |-> len, cap |-> cap], len <= cap)

\* uuid.len(): the bytes of the truncated uuid string
UuidBytes(uuid) == UuidPrefixLen + RandHexLen + 1 + Len(uuid.base)

\* "verity-rootfs\0".len() and "verity\0".len()
NameBytes == 14
TargetTypeBytes == 7

\* table_str.len(): twelve fields, eleven spaces and the final nul
TableBytes(root_device, vp) ==
    1 + 2 * Len(root_device) + Len(vp.data_block_size)
    + Len(vp.hash_block_size) + 2 * Len(vp.data_blocks)
    + Len(vp.hash_algorithm) + Len(vp.root_hash) + Len(vp.salt) + 1 + 18
    + 11 + 1

\* An ioctl on the control file descriptor: its name, the file descriptor,
\* the message passed and the device number the kernel wrote into the
\* header (0 where the code does not read it)
DmCall(name, fd, msg, dev, ok) ==
    Op("prepare_aux", name, [fd |-> fd, msg |-> msg, dev |-> dev], ok)

\* minor(dev): bits 0..7 and 20..43 of a dev_t
Minor(dev) == (dev % 256) + ((dev \div 1048576) % 16777216) * 256

DigitChar(d) == CHOOSE c \in Digits : DigitValue(c) = d

\* format!("{}", n) of an unsigned integer
RECURSIVE Decimal(_)
Decimal(n) ==
    IF n < 10 THEN <<DigitChar(n)>>
    ELSE Append(Decimal(n \div 10), DigitChar(n % 10))

\* What prepare_dmverity meets in the system: whether /verity-params
\* exists, what wait_for_device returns, the contents of /verity-params
\* (None: unreadable), whether /dev/mapper/control opens and as which file
\* descriptor, what getrandom yields (None: failure), which of the three
\* ioctls fails (0: none) and the device number dm_dev_suspend returns
DmEnv(exists, wait, file, fd, rand, fail, dev) ==
    [exists |-> exists, wait |-> wait, file |-> file, fd |-> fd,
     rand |-> rand, fail |-> fail, dev |-> dev]


\* What prepare_dmverity returns: its result, the root it leaves in
\* options, and the operations it performed, in order
DmDone(res, root, list) == [res |-> res, root |-> root, ops |-> list]

DmStep(name, ok) == Op("prepare_aux", name, 0, ok)

\* dm_dev_suspend on a fresh header; then root = /dev/dm-<minor>
DmDevSuspend_RootFirst(options, env, done, uuid) ==
    LET suspend_data == InitHeader(DefaultDmIoctl, SizeOfDmIoctl, 0, uuid)
        dev == IF env.fail = 3 THEN 0 ELSE env.dev
        here == done
                \o <<Copy("uuid", UuidBytes(uuid), DM_UUID_LEN),
                     DmCall("dm_dev_suspend", env.fd[1], suspend_data,
                            dev, env.fail # 3)>>
        root == Some(DEV_DM \o Decimal(Minor(dev)))
    IN  IF env.fail = 3
        THEN DmDone(DmErr("Failed to suspend dm device"), root, here)
        ELSE DmDone(Ok(TRUE), root, here)

DmDevSuspend(options, env, done, uuid) ==
    LET suspend_data == InitHeader(DefaultDmIoctl, SizeOfDmIoctl, 0, uuid)
        dev == IF env.fail = 3 THEN 0 ELSE env.dev
        here == done
                \o <<Copy("uuid", UuidBytes(uuid), DM_UUID_LEN),
                     DmCall("dm_dev_suspend", env.fd[1], suspend_data,
                            dev, env.fail # 3)>>
    IN  IF env.fail = 3
        THEN DmDone(DmErr("Failed to suspend dm device"), options.root, here)
        ELSE DmDone(Ok(TRUE), Some(DEV_DM \o Decimal(Minor(dev))), here)

\* The table message is filled (data_sectors is parsed here) and
\* dm_table_load is called
DmTableLoad(options, env, done, uuid, vp, length) ==
    LET table_load_data ==
            [header |-> [InitHeader(DefaultDmIoctl, SizeOfDmTableLoad,
                                    DM_READONLY_FLAG, uuid)
                            EXCEPT !.target_count = 1],
             target_spec |-> [sector_start |-> 0, length |-> length[1],
                              status |-> 0, next |-> 0,
                              target_type |-> <<"verity">>],
             params |-> VerityTable(options.root[1], vp)]
        table_len == TableBytes(options.root[1], vp)
        headed == Append(done, Copy("uuid", UuidBytes(uuid), DM_UUID_LEN))
        filled == headed
                  \o <<Copy("target_type", TargetTypeBytes, DM_MAX_TYPE_NAME),
                       Copy("params", table_len, ParamsLen)>>
        here == Append(filled, DmCall("dm_table_load", env.fd[1],
                                      table_load_data, 0, env.fail # 2))
    IN  IF length = None
        THEN DmDone(DmErr("Failed to parse 'VERITY_DATA_SECTORS"),
                    options.root, headed)
        ELSE IF table_len > ParamsLen
        THEN DmDone(DmPanic, options.root, filled)
        ELSE IF env.fail = 2
        THEN DmDone(DmErr("Failed to load dm table"), options.root, here)
        ELSE DmDevSuspend(options, env, here, uuid)

\* create_data is filled and dm_dev_create is called
DmDevCreate(options, env, done, uuid, vp) ==
    LET create_data ==
            [InitHeader(DefaultDmIoctl, SizeOfDmIoctl, 0, uuid)
                EXCEPT !.name = <<"verity-rootfs">>]
        here == done
                \o <<Copy("uuid", UuidBytes(uuid), DM_UUID_LEN),
                     Copy("name", NameBytes, DM_NAME_LEN),
                     DmCall("dm_dev_create", env.fd[1], create_data,
                            0, env.fail # 1)>>
    IN  IF env.fail = 1
        THEN DmDone(DmErr("Failed to create dm device"), options.root, here)
        ELSE DmTableLoad(options, env, here, uuid, vp,
                         ParseU64(vp.data_sectors))

\* /dev/mapper/control is opened, getrandom is called, the uuid is built
DmOpenControl(options, env, done, vp) ==
    LET opened == Append(done, DmStep("open /dev/mapper/control",
                                      env.fd # None))
        here == Append(opened, DmStep("getrandom", env.rand # None))
    IN  IF env.fd = None
        THEN DmDone(DmErr("Failed to open /dev/mapper/control"),
                    options.root, opened)
        ELSE IF env.rand = None
        THEN DmDone(DmErr("Getrandom failed"), options.root, here)
        ELSE DmDevCreate(options, env, here,
                         Uuid(env.rand[1], options.root[1]), vp)

\* wait_for_device(root_device)?, then /verity-params is read and scanned
DmReadParams(options, env, done) ==
    LET waited == Append(done, DmStep("wait_for_device", env.wait = "ok"))
        here == Append(waited, Op("prepare_aux", "read_file /verity-params",
                                  env.file, env.file # None))
    IN  IF env.wait # "ok"
        THEN DmDone(DmErr("Timeout reached while waiting for the device"),
                    options.root, waited)
        ELSE IF env.file = None
        THEN DmDone(DmErr("Failed to read /verity-params"), options.root,
                    here)
        ELSE DmOpenControl(options, env, here,
                           VerityParams(env.file[1], 1, NoVerityParams))

\* Path::new("/verity-params").exists() and what it answered
Exists(env) == Op("prepare_aux", "exists /verity-params", env.exists, TRUE)

PrepareDmverity_AnyFstype(options, env) ==
    IF \/ ~env.exists
       \/ options.root = None
    THEN DmDone(Ok(FALSE), options.root, <<Exists(env)>>)
    ELSE DmReadParams(options, env, <<Exists(env)>>)

PrepareDmverity_NfsOnly(options, env) ==
    IF \/ ~env.exists
       \/ options.root = None
       \/ options.rootfstype = Some(NFS)
    THEN DmDone(Ok(FALSE), options.root, <<Exists(env)>>)
    ELSE DmReadParams(options, env, <<Exists(env)>>)

\* prepare_dmverity(options) in the system env
PrepareDmverity(options, env) ==
    IF \/ ~env.exists
       \/ options.root = None
       \/ options.rootfstype \in {Some(NFS), Some(NINE_P)}
    THEN DmDone(Ok(FALSE), options.root, <<Exists(env)>>)
    ELSE DmReadParams(options, env, <<Exists(env)>>)

----------------------------------------------------------------------------
(* usbg_9pfs.rs                                                            *)

\* The fallible steps of setup_9pfs_gadget, in order
GadgetSteps ==
    <<"read_dir /sys/class/udc", "first UDC", "inspect UDC entry",
      "mount_apivfs /sys/kernel/config", "mkdir usb_gadget/9pfs",
      "write idVendor", "write idProduct", "mkdir strings/0x409",
      "write serialnumber", "write manufacturer", "write product",
      "mkdir configs/c.1", "mkdir configs/c.1/strings/0x409",
      "mkdir functions/usb9pfs", "symlink usb9pfs", "write UDC">>

\* prepare_9pfs_gadget(options) when step f of setup_9pfs_gadget fails
\* (f = 0: none fails): the result and the operations performed
Prepare9pfsGadget(options, f) ==
    IF /\ options.rootfstype = Some(NINE_P)
       /\ options.rootflags # None
       /\ ContainsStr(options.rootflags[1], TRANS_USBG)
    THEN IF options.root # None
         THEN [res |-> IF f = 0 THEN Ok(TRUE)
                       ELSE DmErr("setup_9pfs_gadget"),
               ops |-> Ran("prepare_aux", GadgetSteps, f)]
         ELSE [res |-> DmErr("Missing root= for 9p!"), ops |-> <<>>]
    ELSE [res |-> Ok(FALSE), ops |-> <<>>]

----------------------------------------------------------------------------
(* init.rs: InitContext                                                    *)

Features == {"dmverity", "usb9pfs", "systemd"}

\* What /proc/cmdline may hold when setup reads it
ProcCmdlines ==
    {CmdlineOf(<<Tok(K_root, V_a)>>, TRUE),
     CmdlineOf(<<Tok(K_root, V_a), Tok(K_rootfstype, V_9p)>>, TRUE),
     CmdlineOf(<<Flag(K_rw), Flag(K_x)>>, TRUE),
     CmdlineOf(<<Tok(K_root, V_a), Tok(K_rootfstype, V_9p),
                 Tok(K_rootflags, TRANS_USBG)>>, TRUE),
     CmdlineOf(<<Tok(K_rootfstype, V_9p), Tok(K_rootflags, TRANS_USBG)>>,
               TRUE),
     CmdlineOf(<<Flag(K_root)>>, TRUE)}

PhaseAfter_MountFirst(p, feats) ==
    CASE p = "setup" -> "post_setup"
      [] p = "post_setup" -> "mount_root"
      [] p = "mount_root" ->
             IF feats \cap {"dmverity", "usb9pfs"} # {}
             THEN "prepare_aux" ELSE "post_root_mount"
      [] p = "prepare_aux" -> "post_root_mount"
      [] p = "post_root_mount" -> "switch_root"
      [] p = "switch_root" -> "start_init"
      [] p = "start_init" -> "done"

\* InitContext::run and finish: the phase that follows phase p when p
\* returned Ok; prepare_aux exists under cfg(any(dmverity, usb9pfs))
PhaseAfter(p, feats) ==
    CASE p = "setup" -> "post_setup"
      [] p = "post_setup" ->
             IF feats \cap {"dmverity", "usb9pfs"} # {}
             THEN "prepare_aux" ELSE "mount_root"
      [] p = "prepare_aux" -> "mount_root"
      [] p = "mount_root" -> "post_root_mount"
      [] p = "post_root_mount" -> "switch_root"
      [] p = "switch_root" -> "start_init"
      [] p = "start_init" -> "done"

\* `?` on an Err: run returns the error, nothing more is done
PhaseFails(phase, performed) ==
    /\ phase_log' = Append(phase_log, phase)
    /\ ops' = ops \o performed
    /\ run_result' = "err"
    /\ pc' = "done"
    /\ UNCHANGED <<done_log, cb_next>>

PhaseSucceeds(phase, performed) ==
    /\ phase_log' = Append(phase_log, phase)
    /\ done_log' = Append(done_log, phase)
    /\ ops' = ops \o performed
    /\ pc' = PhaseAfter(phase, features)
    /\ UNCHANGED <<run_result, cb_next>>

\* The process starts; InitContext::new(None) is about to be called
RunInit ==
    /\ pc = "start"
    /\ phase_log = <<>>
    /\ done_log = <<>>
    /\ ops = <<>>
    /\ run_result = "running"
    /\ features \in SUBSET Features
    /\ ctx_options = DefaultOptions
    /\ post_setup_cb = <<>>
    /\ post_root_mount_cb = <<>>
    /\ cb_next = 1
    /\ args_os = NotRead
    /\ finalized = 0
    /\ exit = "no"

ParseIdle ==
    /\ family = "none"
    /\ items = <<>>
    /\ terminated = TRUE
    /\ cmdline = <<>>
    /\ callbacks = <<>>
    /\ pstate = "idle"
    /\ result = NotReturned
    /\ scanned = DefaultOptions
    /\ dispatched = <<>>
    /\ calls = <<>>
    /\ pnp = NotRead

parse_obs == <<cmdline, pstate, result, scanned, dispatched, calls, pnp>>

\* finalize(): tcdrain(stdout), and with reboot-on-failure reboot(), which
\* ends the process when it succeeds
Finalize(times) == finalized' = finalized + times

\* A panic inside a phase, after it performed the operations given: the
\* hook and the unwinding as in Panic
PhasePanics(phase, performed) ==
    /\ phase_log' = Append(phase_log, phase)
    /\ ops' = ops \o performed
    /\ run_result' = "panic"
    /\ pc' = "done"
    /\ exit' = "panic"
    /\ \E unwind \in BOOLEAN : Finalize(IF unwind THEN 2 ELSE 1)
    /\ UNCHANGED <<done_log, cb_next, args_os>>

\* InitContext::new: setup_console()? comes first; the panic hook is set and
\* the context is built only when it returned Ok
New ==
    /\ pc = "start"
    /\ exit = "no"
    /\ \E console_ok \in BOOLEAN :
         IF console_ok
         THEN /\ pc' = "new"
              /\ UNCHANGED <<finalized, exit>>
         ELSE /\ exit' = "console"
              /\ UNCHANGED <<pc, finalized>>
    /\ UNCHANGED <<phase_log, done_log, ops, run_result, features, ctx_options,
                   post_setup_cb, post_root_mount_cb, cb_next, args_os>>
    /\ UNCHANGED parse_vars
    /\ UNCHANGED wait_vars
    /\ UNCHANGED shut_vars

\* A panic while run is in a phase: the hook prints and calls finalize();
\* then the process aborts (or was rebooted by finalize), or it unwinds and
\* drops the context, which calls finalize() again
Panic ==
    /\ pc \notin {"start", "new", "done"}
    /\ exit = "no"
    /\ \E unwind \in BOOLEAN : Finalize(IF unwind THEN 2 ELSE 1)
    /\ exit' = "panic"
    /\ run_result' = "panic"
    /\ pc' = "done"
    /\ UNCHANGED <<phase_log, done_log, ops, features, ctx_options,
                   post_setup_cb, post_root_mount_cb, cb_next, args_os>>
    /\ UNCHANGED parse_vars
    /\ UNCHANGED wait_vars
    /\ UNCHANGED shut_vars

\* Drop for InitContext: run returned its error to the caller, and the
\* context goes out of scope before the process ends
DropContext ==
    /\ pc = "done"
    /\ run_result = "err"
    /\ exit = "no"
    /\ Finalize(1)
    /\ exit' = "error"
    /\ UNCHANGED <<pc, phase_log, done_log, ops, run_result, features,
                   ctx_options, post_setup_cb, post_root_mount_cb, cb_next,
                   args_os>>
    /\ UNCHANGED parse_vars
    /\ UNCHANGED wait_vars
    /\ UNCHANGED shut_vars

\* add_cmdline_cb
AddCmdlineCb ==
    /\ pc = "new"
    /\ Len(callbacks) < MaxCallbacks
    /\ callbacks' = Append(callbacks,
                           [wants |-> IF callbacks = <<>> THEN K_x ELSE K_y])
    /\ UNCHANGED <<family, items, terminated, parse_obs>>
    /\ UNCHANGED run_vars
    /\ UNCHANGED wait_vars
    /\ UNCHANGED shut_vars

\* add_post_setup_cb
AddPostSetupCb ==
    /\ pc = "new"
    /\ Len(post_setup_cb) < MaxCallbacks
    /\ post_setup_cb' = Append(post_setup_cb, Len(post_setup_cb) + 1)
    /\ UNCHANGED <<pc, phase_log, done_log, ops, run_result, features, ctx_options,
                   post_root_mount_cb, cb_next>>
    /\ UNCHANGED parse_vars
    /\ UNCHANGED wait_vars
    /\ UNCHANGED shut_vars
    /\ UNCHANGED proc_vars

\* add_post_root_mount_cb
AddPostRootMountCb ==
    /\ pc = "new"
    /\ Len(post_root_mount_cb) < MaxCallbacks
    /\ post_root_mount_cb' =
           Append(post_root_mount_cb, Len(post_root_mount_cb) + 1)
    /\ UNCHANGED <<pc, phase_log, done_log, ops, run_result, features, ctx_options,
                   post_setup_cb, cb_next>>
    /\ UNCHANGED parse_vars
    /\ UNCHANGED wait_vars
    /\ UNCHANGED shut_vars
    /\ UNCHANGED proc_vars

\* run is called
RunCall ==
    /\ pc = "new"
    /\ pc' = "setup"
    /\ UNCHANGED <<phase_log, done_log, ops, run_result, features, ctx_options,
                   post_setup_cb, post_root_mount_cb, cb_next>>
    /\ UNCHANGED parse_vars
    /\ UNCHANGED wait_vars
    /\ UNCHANGED shut_vars
    /\ UNCHANGED proc_vars

\* setup: mount_special()?; setup_log()?; then the handlers are moved into
\* the parser and /proc/cmdline is parsed
Setup ==
    /\ pc = "setup"
    /\ \/ \E f \in 1..2 :
            /\ PhaseFails("setup",
                   Ran("setup", <<"mount_special", "setup_log">>, f))
            /\ UNCHANGED <<ctx_options, callbacks, parse_obs>>
       \/ \E text \in ProcCmdlines :
            LET r == FromString(text, callbacks, None)
                list == <<"mount_special", "setup_log", "from_file">>
            IN  /\ cmdline' = text
                /\ pstate' = "returned"
                /\ result' = r.res
                /\ scanned' = r.scanned
                /\ dispatched' = r.dispatched
                /\ calls' = r.calls
                /\ pnp' = IF r.read THEN Some(None) ELSE NotRead
                /\ callbacks' = <<>>
                /\ IF r.res.ok
                   THEN /\ ctx_options' = r.res.v
                        /\ PhaseSucceeds("setup", Ran("setup", list, 0))
                   ELSE /\ UNCHANGED ctx_options
                        /\ PhaseFails("setup", Ran("setup", list, 3))
       \/ \* read_file("/proc/cmdline") fails
          /\ PhaseFails("setup",
                 Ran("setup", <<"mount_special", "setup_log", "from_file">>, 3))
          /\ callbacks' = <<>>
          /\ UNCHANGED <<ctx_options, parse_obs>>
    /\ UNCHANGED <<features, post_setup_cb, post_root_mount_cb>>
    /\ UNCHANGED <<family, items, terminated>>
    /\ UNCHANGED wait_vars
    /\ UNCHANGED shut_vars
    /\ UNCHANGED proc_vars

\* The n-th callback `for cb in &mut list` yields
NextCallback_Reverse(list, n) == list[Len(list) + 1 - n]

NextCallback(list, n) == list[n]

\* What a callback may do with the &mut CmdlineOptions it is given: leave
\* it alone, or clear cleanup
CallbackEffects(options) == {options, [options EXCEPT !.cleanup = FALSE]}

\* cb(&mut self.options): the callback, the options it was passed and the
\* options it left
CallbackOp(phase, cb, passed, left, ok) ==
    Op(phase, "callback", [id |-> cb, options |-> passed, left |-> left], ok)

\* One iteration of `for cb in &mut list { cb(&mut self.options)? }`
CallbackStep(phase, list) ==
    /\ pc = phase
    /\ cb_next <= Len(list)
    /\ phase_log' = IF cb_next = 1 THEN Append(phase_log, phase) ELSE phase_log
    /\ \E left \in CallbackEffects(ctx_options), ok \in BOOLEAN :
         /\ ctx_options' = left
         /\ ops' = Append(ops, CallbackOp(phase, NextCallback(list, cb_next),
                                          ctx_options, left, ok))
         /\ IF ok
            THEN /\ cb_next' = cb_next + 1
                 /\ UNCHANGED <<pc, run_result>>
            ELSE /\ run_result' = "err"
                 /\ pc' = "done"
                 /\ UNCHANGED cb_next
    /\ UNCHANGED <<done_log, features, post_setup_cb, post_root_mount_cb>>
    /\ UNCHANGED parse_vars
    /\ UNCHANGED wait_vars
    /\ UNCHANGED shut_vars
    /\ UNCHANGED proc_vars

\* The loop over the callbacks of a list ends
CallbacksDone(phase, list) ==
    /\ pc = phase
    /\ cb_next > Len(list)
    /\ phase_log' = IF list = <<>> THEN Append(phase_log, phase) ELSE phase_log
    /\ done_log' = Append(done_log, phase)
    /\ pc' = PhaseAfter(phase, features)
    /\ cb_next' = 1
    /\ UNCHANGED <<ops, run_result, features, ctx_options, post_setup_cb,
                   post_root_mount_cb>>
    /\ UNCHANGED parse_vars
    /\ UNCHANGED wait_vars
    /\ UNCHANGED shut_vars
    /\ UNCHANGED proc_vars

PostSetupCb == CallbackStep("post_setup", post_setup_cb)
PostSetupDone == CallbacksDone("post_setup", post_setup_cb)
PostRootMountCb == CallbackStep("post_root_mount", post_root_mount_cb)
PostRootMountDone == CallbacksDone("post_root_mount", post_root_mount_cb)

\* A line of /verity-params
VLine(key, value) == key \o <<"=">> \o value

VF_full ==
    <<VLine(VERITY_DATA_BLOCKS, <<"4">>),
      <<"#", " ", "c">>,
      VLine(VERITY_DATA_SECTORS, <<"3", "2">>),
      VLine(VERITY_DATA_BLOCK_SIZE, <<"5", "1", "2">>),
      VLine(VERITY_HASH_BLOCK_SIZE, <<"5", "1", "2">>),
      VLine(VERITY_HASH_ALGORITHM, <<"s", "h", "a">>),
      VLine(<<"VERITY_UUID">>, <<"u">>),
      VLine(VERITY_SALT, <<"a", "b">>),
      VLine(VERITY_ROOT_HASH, <<"c", "d", "=">>)>>

VF_bad_sectors ==
    <<VLine(VERITY_DATA_BLOCKS, <<"4">>),
      VLine(VERITY_DATA_SECTORS, <<"3", "k">>),
      VLine(VERITY_ROOT_HASH, <<"c", "d">>)>>

\* a salt of LongLen characters makes the table longer than the buffer
VF_long_salt ==
    <<VLine(VERITY_DATA_SECTORS, <<"8">>),
      VLine(VERITY_SALT, [i \in 1..LongLen |-> "a"])>>

\* What read_file("/verity-params") may yield
VerityFiles ==
    {None, Some(<<>>), Some(VF_full), Some(VF_bad_sectors), Some(VF_long_salt)}

ControlFd == 3

\* The systems prepare_dmverity may meet; what a step yields is left at its
\* first value when an earlier step fails, since the step is then not
\* reached
DmEnvs ==
    LET Reached(e) ==
            /\ ~e.exists => e.wait = "ok"
            /\ e.wait # "ok" => e.file = None
            /\ e.file = None => e.fd = None
            /\ e.fd = None => e.rand = None
            /\ e.rand = None => e.fail = 0
            /\ e.fail # 0 => e.dev = 64768
    IN  {e \in {DmEnv(x, w, file, fd, rand, fail, dev) :
                   x \in BOOLEAN, w \in {"ok", "timeout"},
                   file \in VerityFiles, fd \in {None, Some(ControlFd)},
                   rand \in {None, Some(<<"0", "f">>)}, fail \in 0..3,
                   dev \in {64768, 1113345}} : Reached(e)}

\* The call of a strategy and what it returned
Strategy(name, res) ==
    Op("prepare_aux", name,
       IF ~res.ok THEN "err"
       ELSE IF res.v THEN "handled" ELSE "not applicable",
       res.ok)

\* A strategy's result with the record of its call added to its operations
Called(name, r) ==
    IF IsPanic(r.res) THEN r
    ELSE [r EXCEPT !.ops = Append(@, Strategy(name, r.res))]

NotCompiled(root) == DmDone(Ok(FALSE), root, <<>>)

GadgetPart_Always(dm, options, feats, f) ==
    LET g == Called("prepare_9pfs_gadget",
                    Prepare9pfsGadget([options EXCEPT !.root = dm.root], f))
    IN  IF "usb9pfs" \in feats
        THEN [res |-> IF ~dm.res.ok THEN dm.res
                      ELSE IF ~g.res.ok THEN g.res
                      ELSE Ok(dm.res.v \/ g.res.v),
              root |-> dm.root, ops |-> dm.ops \o g.ops]
        ELSE dm

\* prepare_aux after prepare_dmverity returned dm: Ok(true) and Err return;
\* otherwise prepare_9pfs_gadget is tried, when compiled in
GadgetPart(dm, options, feats, f) ==
    IF ~dm.res.ok \/ dm.res.v \/ "usb9pfs" \notin feats
    THEN dm
    ELSE LET g == Called("prepare_9pfs_gadget",
                         Prepare9pfsGadget([options EXCEPT !.root = dm.root],
                                           f))
         IN  [res |-> g.res, root |-> dm.root, ops |-> dm.ops \o g.ops]

\* prepare_aux in a build with the features feats
PrepareAuxRun(options, feats, env, f) ==
    GadgetPart(IF "dmverity" \in feats
               THEN Called("prepare_dmverity", PrepareDmverity(options, env))
               ELSE NotCompiled(options.root),
               options, feats, f)

\* prepare_aux returned r to run
PrepareAuxReturns(r) ==
    /\ ctx_options' = [ctx_options EXCEPT !.root = r.root]
    /\ IF r.res.ok
       THEN PhaseSucceeds("prepare_aux", r.ops) /\ UNCHANGED proc_vars
       ELSE IF IsPanic(r.res)
       THEN PhasePanics("prepare_aux", r.ops)
       ELSE PhaseFails("prepare_aux", r.ops) /\ UNCHANGED proc_vars

\* InitContext::prepare_aux, called by run with `?`
PrepareAux ==
    /\ pc = "prepare_aux"
    /\ \E env \in IF "dmverity" \in features THEN DmEnvs
                  ELSE {DmEnv(FALSE, "ok", None, None, None, 0, 64768)} :
       \E f \in IF "usb9pfs" \in features THEN 0..Len(GadgetSteps) ELSE {0} :
         PrepareAuxReturns(PrepareAuxRun(ctx_options, features, env, f))
    /\ UNCHANGED <<features, post_setup_cb, post_root_mount_cb>>
    /\ UNCHANGED parse_vars
    /\ UNCHANGED wait_vars
    /\ UNCHANGED shut_vars

\* The bit of each MsFlags flag
FlagBit(name) ==
    CASE name = "MS_RDONLY" -> 1
      [] name = "MS_NOSUID" -> 2
      [] name = "MS_NODEV" -> 4
      [] name = "MS_BIND" -> 4096
      [] name = "MS_MOVE" -> 8192
      [] name = "MS_STRICTATIME" -> 16777216

\* MsFlags::bits()
RECURSIVE FlagBits(_)
FlagBits(flags) ==
    IF flags = {} THEN 0
    ELSE LET x == CHOOSE y \in flags : TRUE
         IN  FlagBit(x) + FlagBits(flags \ {x})

HexDigit(d) ==
    CASE d < 10 -> DigitChar(d)
      [] d = 10 -> "a" [] d = 11 -> "b" [] d = 12 -> "c"
      [] d = 13 -> "d" [] d = 14 -> "e" [] d = 15 -> "f"

RECURSIVE HexDigits(_)
HexDigits(n) ==
    IF n < 16 THEN <<HexDigit(n)>>
    ELSE Append(HexDigits(n \div 16), HexDigit(n % 16))

\* format!("{:#x}", n)
Hex(n) == <<"0", "x">> \o HexDigits(n)

\* Option<&str>::unwrap_or("")
UnwrapOrEmpty(o) == IF o = None THEN <<>> ELSE o[1]

\* The message of do_mount when mount fails, one piece per literal part
\* and per formatted argument
MountError(src, dst, fstype, flags, data) ==
    <<<<"Failed to mount ">>, UnwrapOrEmpty(src), <<" -> ">>, dst, <<" (">>,
      Hex(FlagBits(flags)), <<", ">>, UnwrapOrEmpty(data), <<"): ">>,
      <<"errno">>>>

\* do_mount(src, dst, fstype, flags, data): setup_mountpoint(dst)?, then
\* mount; failed: whether the mount call fails
DoMount(src, dst, fstype, flags, data, failed) ==
    <<Step("setup_mountpoint", dst),
      Step("mount",
           [src |-> src, dst |-> dst, fstype |-> fstype, flags |-> flags,
            data |-> data,
            err |-> IF failed
                    THEN Some(MountError(src, dst, fstype, flags, data))
                    ELSE None])>>

\* mount_root with root None: the Err it returns at once
RootNotFound ==
    Op("mount_root", "mount_root", "root= not found in /proc/cmdline", FALSE)

MountRootOps_CreateFirst(options, f) ==
    IF options.root = None
    THEN <<Op("mount_root", "create_dir /root", 0, TRUE), RootNotFound>>
    ELSE RanSteps("mount_root",
                  Steps(<<"create_dir /root">>)
                  \o DoMount(options.root, <<"/root">>, options.rootfstype,
                             options.rootfsflags, options.rootflags, f = 3),
                  f)

\* mount::mount_root: what it did when its operation f failed (f = 0: none
\* failed)
MountRootOps(options, f) ==
    IF options.root = None
    THEN <<RootNotFound>>
    ELSE RanSteps("mount_root",
                  Steps(<<"create_dir /root">>)
                  \o DoMount(options.root, <<"/root">>, options.rootfstype,
                             options.rootfsflags, options.rootflags, f = 3),
                  f)

\* InitContext::mount_root -> mount::mount_root
MountRoot ==
    /\ pc = "mount_root"
    /\ \E f \in 0..3 :
         LET did == MountRootOps(ctx_options, f)
         IN  IF \A i \in 1..Len(did) : did[i].ok
             THEN PhaseSucceeds("mount_root", did)
             ELSE PhaseFails("mount_root", did)
    /\ UNCHANGED <<features, ctx_options, post_setup_cb, post_root_mount_cb>>
    /\ UNCHANGED parse_vars
    /\ UNCHANGED wait_vars
    /\ UNCHANGED shut_vars
    /\ UNCHANGED proc_vars

\* mount.rs, mount_move: the operations of one call, in order
MountMove_RemoveFirst(src, dst, cleanup) ==
    (IF cleanup THEN <<Step("remove_dir", src)>> ELSE <<>>)
    \o <<Step("mount_move", [src |-> src, dst |-> dst, cleanup |-> cleanup])>>

MountMove(src, dst, cleanup) ==
    <<Step("mount_move", [src |-> src, dst |-> dst, cleanup |-> cleanup])>>
    \o (IF cleanup THEN <<Step("remove_dir", src)>> ELSE <<>>)

\* mount.rs, mount_move_special
MountMoveSpecial_ProcFirst(cleanup) ==
    MountMove("/proc", "/root/proc", cleanup)
    \o MountMove("/dev", "/root/dev", cleanup)
    \o MountMove("/sys", "/root/sys", cleanup)

MountMoveSpecial(cleanup) ==
    MountMove("/dev", "/root/dev", cleanup)
    \o MountMove("/sys", "/root/sys", cleanup)
    \o MountMove("/proc", "/root/proc", cleanup)

\* systemd.rs, mount_systemd: the operations of one call, in order;
\* shutdown: whether /shutdown exists; f: the index of the operation of
\* switch_root that fails
MountSystemd(shutdown, f) ==
    DoMount(None, <<"/root/run">>, Some(<<"tmpfs">>),
            {"MS_NODEV", "MS_NOSUID", "MS_STRICTATIME"},
            Some(<<"mode=0755">>), f = 2)
    \o <<Step("exists /shutdown", shutdown)>>
    \o (IF shutdown
        THEN Steps(<<"mkdir /run", "mkdir /oldroot">>)
             \o DoMount(Some(<<"/">>), <<"/root/run/initramfs">>, None,
                        {"MS_BIND"}, None, f = 7)
        ELSE <<>>)

\* options.cleanup when mount_systemd has returned Ok
CleanupAfterSystemd_Keep(cleanup, shutdown) == cleanup

CleanupAfterSystemd(cleanup, shutdown) ==
    IF shutdown THEN FALSE ELSE cleanup

\* switch_root; `?` returns at the first operation that fails, exists()
\* cannot fail
SwitchRoot ==
    /\ pc = "switch_root"
    /\ \E shutdown \in BOOLEAN :
         LET systemd == "systemd" \in features
             cleanup == IF systemd
                        THEN CleanupAfterSystemd(ctx_options.cleanup, shutdown)
                        ELSE ctx_options.cleanup
             list(f) == (IF systemd THEN MountSystemd(shutdown, f) ELSE <<>>)
                        \o Steps(IF cleanup THEN <<"current_exe", "unlink">>
                                 ELSE <<>>)
                        \o MountMoveSpecial(cleanup)
                        \o Steps(<<"chdir /root", "chroot .", "chdir /">>)
         IN  \E f \in 0..Len(list(0)) :
               /\ f # 0 => list(f)[f].op # "exists /shutdown"
               /\ ctx_options' = IF systemd /\ (f = 0 \/ f > 2)
                                 THEN [ctx_options EXCEPT !.cleanup = cleanup]
                                 ELSE ctx_options
               /\ IF f = 0
                  THEN PhaseSucceeds("switch_root",
                                     RanSteps("switch_root", list(0), 0))
                  ELSE PhaseFails("switch_root",
                                  RanSteps("switch_root", list(f), f))
    /\ UNCHANGED <<features, post_setup_cb, post_root_mount_cb>>
    /\ UNCHANGED parse_vars
    /\ UNCHANGED wait_vars
    /\ UNCHANGED shut_vars
    /\ UNCHANGED proc_vars

\* CString::new(bytes): the same bytes, nul-terminated; an interior nul
\* byte is an error
CStringNew(bytes) ==
    IF \E i \in 1..Len(bytes) : bytes[i] = NUL
    THEN Err("nul byte found in provided data")
    ELSE Ok(bytes)

\* env::args_os().skip(1)
SkipFirst_None(own) == own

SkipFirst(own) == SubSeq(own, 2, Len(own))

\* The strings start_init converts, in order: options.init, then the
\* process's own arguments after the first
ToConvert(init, own) == <<init>> \o SkipFirst(own)

\* The index of the first string CString::new rejects, 0 when none
FirstBad(strs) ==
    IF \A i \in 1..Len(strs) : CStringNew(strs[i]).ok
    THEN 0
    ELSE CHOOSE i \in 1..Len(strs) :
             /\ ~CStringNew(strs[i]).ok
             /\ \A j \in 1..(i - 1) : CStringNew(strs[j]).ok

\* What env::args_os() may return: nothing, or the program name followed
\* by up to MaxArgs arguments
ArgPool == {<<"a">>, <<"b">>, <<"a", NUL>>}

OwnArgs ==
    {<<>>} \cup
    UNION {{<<<<"r">>>> \o [i \in 1..n |-> f[i]] : f \in [1..n -> ArgPool]} :
              n \in 0..MaxArgs}

\* start_init: the argument vector is built, then execv; execv returns only
\* when it failed
StartInit ==
    /\ pc = "start_init"
    /\ \E own \in OwnArgs, exec_ok \in BOOLEAN :
         LET strs == ToConvert(ctx_options.init, own)
             bad == FirstBad(strs)
             conv == [i \in 1..Len(strs) |-> Step("CString::new", strs[i])]
             args == [i \in 1..Len(strs) |-> CStringNew(strs[i]).v]
         IN  /\ args_os' = Some(own)
             /\ IF bad # 0
                THEN PhaseFails("start_init",
                                RanSteps("start_init", conv, bad))
                ELSE LET execv == Step("execv", [path |-> args[1],
                                                 argv |-> args])
                         all == conv \o <<execv>>
                     IN  IF exec_ok
                         THEN /\ phase_log' = Append(phase_log, "start_init")
                              /\ done_log' = Append(done_log, "start_init")
                              /\ ops' = ops \o RanSteps("start_init", all, 0)
                              /\ run_result' = "replaced"
                              /\ pc' = "done"
                              /\ UNCHANGED cb_next
                         ELSE PhaseFails("start_init",
                                  RanSteps("start_init", all, Len(all)))
    /\ UNCHANGED <<features, ctx_options, post_setup_cb, post_root_mount_cb>>
    /\ UNCHANGED <<finalized, exit>>
    /\ UNCHANGED parse_vars
    /\ UNCHANGED wait_vars
    /\ UNCHANGED shut_vars

RunNext ==
    \/ New
    \/ Panic
    \/ DropContext
    \/ AddCmdlineCb
    \/ AddPostSetupCb
    \/ AddPostRootMountCb
    \/ RunCall
    \/ Setup
    \/ PostSetupCb
    \/ PostSetupDone
    \/ PrepareAux
    \/ MountRoot
    \/ PostRootMountCb
    \/ PostRootMountDone
    \/ SwitchRoot
    \/ StartInit

RunSpecInit == RunInit /\ ParseIdle /\ WaitIdle /\ ShutIdle

RunSpec == RunSpecInit /\ [][RunNext]_vars

----------------------------------------------------------------------------
(* util.rs: wait_for_device, one step per call it makes                    *)

\* the upper end of the range of `for _ in 0..1000`
WaitTries == 1000

\* the duration = Duration::from_millis(5)
SleepMs == 5

\* the loop of wait_for_device has a next iteration after i of them
InRange_Short(i) == i < WaitTries - 1

InRange(i) == i < WaitTries

\* wait_for_device(device) is called; the path may or may not exist yet
WaitCall ==
    /\ w_pc = "idle"
    /\ w_pc' = "check"
    /\ UNCHANGED <<w_i, w_exists, w_checks, w_hits, w_sleeps, w_slept>>
    /\ UNCHANGED <<parse_vars, run_vars>>
    /\ UNCHANGED shut_vars

\* if path.exists() { return Ok(()); }
WaitCheck ==
    /\ w_pc = "check"
    /\ InRange(w_i)
    /\ w_checks' = w_checks + 1
    /\ w_hits' = IF w_exists THEN w_hits + 1 ELSE w_hits
    /\ w_pc' = IF w_exists THEN "ok" ELSE "sleep"
    /\ UNCHANGED <<w_i, w_exists, w_sleeps, w_slept>>
    /\ UNCHANGED <<parse_vars, run_vars>>
    /\ UNCHANGED shut_vars

\* thread::sleep(duration); and the end of the iteration
WaitSleep ==
    /\ w_pc = "sleep"
    /\ w_sleeps' = w_sleeps + 1
    /\ w_slept' = w_slept + SleepMs
    /\ w_i' = w_i + 1
    /\ w_pc' = "check"
    /\ UNCHANGED <<w_exists, w_checks, w_hits>>
    /\ UNCHANGED <<parse_vars, run_vars>>
    /\ UNCHANGED shut_vars

\* Err("Timeout reached while waiting for the device".into())
WaitTimeout ==
    /\ w_pc = "check"
    /\ ~InRange(w_i)
    /\ w_pc' = "timeout"
    /\ UNCHANGED <<w_i, w_exists, w_checks, w_hits, w_sleeps, w_slept>>
    /\ UNCHANGED <<parse_vars, run_vars>>
    /\ UNCHANGED shut_vars

\* the kernel creates or removes the device node while the caller waits
DeviceChanges ==
    /\ w_pc \in {"check", "sleep"}
    /\ w_exists' = ~w_exists
    /\ UNCHANGED <<w_pc, w_i, w_checks, w_hits, w_sleeps, w_slept>>
    /\ UNCHANGED <<parse_vars, run_vars>>
    /\ UNCHANGED shut_vars

WaitInit ==
    /\ w_pc = "idle"
    /\ w_i = 0
    /\ w_exists \in BOOLEAN
    /\ w_checks = 0
    /\ w_hits = 0
    /\ w_sleeps = 0
    /\ w_slept = 0

WaitStep == WaitCall \/ WaitCheck \/ WaitSleep \/ WaitTimeout

WaitNext ==
    \/ WaitCall
    \/ WaitCheck
    \/ WaitSleep
    \/ WaitTimeout
    \/ DeviceChanges

WaitSpecInit == WaitInit /\ ParseIdle /\ RunIdle /\ ShutIdle

\* the thread that called wait_for_device keeps running: nothing in the
\* function blocks but the bounded sleep
WaitSpec == WaitSpecInit /\ [][WaitNext]_vars /\ WF_vars(WaitStep)

----------------------------------------------------------------------------
(* systemd.rs: shutdown and its umount_root                                *)

\* A mount point is the sequence of its path components; a line of
\* mountinfo is the sequence of its space-separated fields
OLDROOT == "/oldroot"

MP_oldroot == <<OLDROOT>>
MP_a == <<OLDROOT, "/a">>
MP_a_b == <<OLDROOT, "/a", "/b">>
MP_b == <<OLDROOT, "/b">>
MP_proc == <<"/proc">>

InfoLine(mountpoint) == <<"36", "35", "0:26", "/", mountpoint, "rw">>

InfoLines ==
    {InfoLine(mp) : mp \in {MP_oldroot, MP_a, MP_a_b, MP_b, MP_proc}}
    \cup {<<"36", "35", "0:26">>}

\* line.split(' ').nth(4)
MountpointOf(line) == IF Len(line) >= 5 THEN Some(line[5]) ELSE None

\* mountpoint.starts_with("/oldroot")
UnderOldroot(mountpoint) == mountpoint # <<>> /\ mountpoint[1] = OLDROOT

\* The order of the bytes of two path components
CompRank(c) ==
    CASE c = "/a" -> 1 [] c = "/b" -> 2 [] c = OLDROOT -> 3 [] c = "/proc" -> 4

\* a <= b for &str: the first differing component decides, a prefix is less
RECURSIVE StrLeq(_, _)
StrLeq(a, b) ==
    IF a = <<>> THEN TRUE
    ELSE IF b = <<>> THEN FALSE
    ELSE IF a[1] = b[1] THEN StrLeq(Tail(a), Tail(b))
    ELSE CompRank(a[1]) < CompRank(b[1])

\* BinaryHeap::sift_up: the element at pos moves up while it is greater
\* than its parent
RECURSIVE SiftUp(_, _)
SiftUp(data, pos) ==
    IF pos = 1 THEN data
    ELSE LET parent == pos \div 2
         IN  IF StrLeq(data[pos], data[parent]) THEN data
             ELSE SiftUp([data EXCEPT ![pos] = data[parent],
                                      ![parent] = data[pos]], parent)

\* BinaryHeap::push
HeapPush(data, x) == SiftUp(Append(data, x), Len(data) + 1)

\* shutdown() is called
ShutdownCall ==
    /\ sd_pc = "idle"
    /\ sd_pc' = "read"
    /\ UNCHANGED <<mountinfo, sd_line, mounts, umounted, sd_result>>
    /\ UNCHANGED <<parse_vars, run_vars, wait_vars>>

\* read_to_string("/proc/self/mountinfo"): on Err nothing is unmounted
ReadMountinfo ==
    /\ sd_pc = "read"
    /\ \E read_ok \in BOOLEAN :
         sd_pc' = IF read_ok THEN "scan" ELSE "reboot"
    /\ UNCHANGED <<mountinfo, sd_line, mounts, umounted, sd_result>>
    /\ UNCHANGED <<parse_vars, run_vars, wait_vars>>

\* One iteration of `for line in data.lines()`
ScanLine ==
    /\ sd_pc = "scan"
    /\ sd_line < Len(mountinfo)
    /\ LET mp == MountpointOf(mountinfo[sd_line + 1])
       IN  mounts' = IF mp # None /\ UnderOldroot(mp[1])
                     THEN HeapPush(mounts, mp[1])
                     ELSE mounts
    /\ sd_line' = sd_line + 1
    /\ UNCHANGED <<mountinfo, sd_pc, umounted, sd_result>>
    /\ UNCHANGED <<parse_vars, run_vars, wait_vars>>

\* The lines are exhausted; `for mountpoint in mounts` consumes the heap
ScanDone ==
    /\ sd_pc = "scan"
    /\ sd_line = Len(mountinfo)
    /\ sd_pc' = "umount"
    /\ UNCHANGED <<mountinfo, sd_line, mounts, umounted, sd_result>>
    /\ UNCHANGED <<parse_vars, run_vars, wait_vars>>

\* One iteration of `for mountpoint in mounts`: BinaryHeap's IntoIter walks
\* the vector from its first element; umount(mountpoint)?
Umount ==
    /\ sd_pc = "umount"
    /\ mounts # <<>>
    /\ \E ok \in BOOLEAN :
         /\ umounted' = Append(umounted, [mountpoint |-> Head(mounts),
                                          ok |-> ok])
         /\ IF ok
            THEN UNCHANGED <<sd_pc, sd_result>>
            ELSE sd_pc' = "done" /\ sd_result' = "err"
    /\ mounts' = Tail(mounts)
    /\ UNCHANGED <<mountinfo, sd_line>>
    /\ UNCHANGED <<parse_vars, run_vars, wait_vars>>

\* umount_root returns Ok(())
UmountDone ==
    /\ sd_pc = "umount"
    /\ mounts = <<>>
    /\ sd_pc' = "reboot"
    /\ UNCHANGED <<mountinfo, sd_line, mounts, umounted, sd_result>>
    /\ UNCHANGED <<parse_vars, run_vars, wait_vars>>

\* reboot(arg): it returns only when it failed
Reboot ==
    /\ sd_pc = "reboot"
    /\ \E ok \in BOOLEAN : sd_result' = IF ok THEN "rebooted" ELSE "err"
    /\ sd_pc' = "done"
    /\ UNCHANGED <<mountinfo, sd_line, mounts, umounted>>
    /\ UNCHANGED <<parse_vars, run_vars, wait_vars>>

ShutInit ==
    /\ mountinfo \in SeqsUpTo(InfoLines, MaxMounts)
    /\ sd_pc = "idle"
    /\ sd_line = 0
    /\ mounts = <<>>
    /\ umounted = <<>>
    /\ sd_result = "running"

ShutNext ==
    \/ ShutdownCall
    \/ ReadMountinfo
    \/ ScanLine
    \/ ScanDone
    \/ Umount
    \/ UmountDone
    \/ Reboot

ShutSpecInit == ShutInit /\ ParseIdle /\ RunIdle /\ WaitIdle

ShutSpec == ShutSpecInit /\ [][ShutNext]_vars

----------------------------------------------------------------------------
(* Properties.  The operators below state the claims; they are written     *)
(* from the claims' words, not from the operators of the model.            *)

IsPrefix(a, b) == Len(a) <= Len(b) /\ a = SubSeq(b, 1, Len(a))

SelectKeep(seq, Keep(_)) ==
    LET RECURSIVE Go(_)
        Go(n) == IF n = 0 THEN <<>>
                 ELSE IF Keep(seq[n]) THEN Append(Go(n - 1), seq[n])
                      ELSE Go(n - 1)
    IN  Go(Len(seq))

\* The order of the phases of run, as the claim lists them; a build without
\* dmverity and usb9pfs has no root preparation phase
PhaseOrder ==
    <<"setup", "post_setup", "prepare_aux", "mount_root", "post_root_mount",
      "switch_root", "start_init">>

BuildHasAux == features \cap {"dmverity", "usb9pfs"} # {}

BuildOrder ==
    LET InBuild(p) == p # "prepare_aux" \/ BuildHasAux
    IN  SelectKeep(PhaseOrder, InBuild)

PhaseIndex(p) == CHOOSE i \in 1..Len(PhaseOrder) : PhaseOrder[i] = p

C1_Order ==
    /\ IsPrefix(phase_log, BuildOrder)
    /\ IsPrefix(done_log, phase_log)
    /\ Len(phase_log) - Len(done_log) <= 1
    /\ \A i \in 1..Len(ops) :
         /\ \E k \in 1..Len(phase_log) : phase_log[k] = ops[i].phase
         /\ \A j \in 1..(i - 1) :
              PhaseIndex(ops[j].phase) <= PhaseIndex(ops[i].phase)
    /\ run_result = "err" =>
         /\ pc = "done"
         /\ Len(done_log) = Len(phase_log) - 1
    /\ run_result = "replaced" =>
         /\ pc = "done"
         /\ done_log = BuildOrder

C1_Step ==
    /\ phase_log' # phase_log =>
         /\ done_log = phase_log
         /\ run_result = "running"
    /\ ops' # ops => run_result = "running"
    /\ run_result # "running" => UNCHANGED <<phase_log, done_log, ops, run_result>>

\* C1: in every execution of run the phases start in the order setup,
\* post-setup callbacks, root preparation, root mount, post-root-mount
\* callbacks, switch_root, start_init; a phase starts only when every
\* earlier phase has completed with Ok, every operation performed belongs to
\* a started phase and operations follow the phase order, and once a phase
\* has returned an error nothing more is started or performed.
C1_PhasesInOrder == [](C1_Order) /\ [][C1_Step]_vars

\* A boot that failed in a post-root-mount callback, the five phases before
\* having started in order and the first four completed
C1_Witness ==
    /\ run_result = "err"
    /\ phase_log = SubSeq(PhaseOrder, 1, 5)
    /\ done_log = SubSeq(PhaseOrder, 1, 4)
    /\ ops[Len(ops)].op = "callback"

----------------------------------------------------------------------------
(* Properties of from_string                                               *)

\* The (key, value) pair a token stands for as written: the key, and the
\* value between the '=' and the separator when there is an '='
PairOf(t) == [key |-> t.key, value |-> IF t.hasval THEN Some(t.val) ELSE None]

\* The pairs of the tokens of the command line that are non-empty and are
\* followed by their separator, left to right
WrittenTokens ==
    LET completed == IF terminated THEN items
                     ELSE SubSeq(items, 1, Len(items) - 1)
        NonEmpty(t) == t.key # <<>>
    IN  SelectKeep(completed, NonEmpty)

Written == [i \in 1..Len(WrittenTokens) |-> PairOf(WrittenTokens[i])]

\* The key from_string takes for a token: what follows the last double
\* quote before the '=' or the separator
KeySeen(t) ==
    LET quotes == {i \in 1..Len(t.key) : t.key[i] = "\""}
        last == IF quotes = {} THEN 0
                ELSE CHOOSE i \in quotes : \A j \in quotes : j <= i
    IN  SubSeq(t.key, last + 1, Len(t.key))

\* The tokens followed by their separator for which from_string has a key,
\* left to right
KeyedTokens ==
    LET completed == IF terminated THEN items
                     ELSE SubSeq(items, 1, Len(items) - 1)
        Keyed(t) == KeySeen(t) # <<>>
    IN  SelectKeep(completed, Keyed)

QuoteFree == \A i \in 1..Len(cmdline) : cmdline[i] # "\""

Returned == pstate = "returned"

\* The scan reached the end of the command line: from_string returned Ok or
\* an error of NFS resolution
ScanCompleted ==
    \/ result.ok
    \/ result.e.kind \in {"Missing nfsroot command-line option!",
                          "Failed to read /proc/net/pnp"}

\* NFS resolution is triggered
NfsCase == scanned.root = Some(DEV_NFS) \/ scanned.rootfstype = Some(NFS)

ValueKeys == {K_root, K_rootfstype, K_rootflags, K_nfsroot, K_init}
RecognizedKeys == ValueKeys \cup {K_ro, K_rw}

\* The index of the last pair with a key of ks, 0 when there is none
LastIndex(pairs, ks) ==
    LET hits == {i \in 1..Len(pairs) : pairs[i].key \in ks}
    IN  IF hits = {} THEN 0 ELSE CHOOSE i \in hits : \A j \in hits : j <= i

\* The field of key k, as an Option
FieldOf(o, k) ==
    CASE k = K_root -> o.root
      [] k = K_rootfstype -> o.rootfstype
      [] k = K_rootflags -> o.rootflags
      [] k = K_nfsroot -> o.nfsroot
      [] k = K_init -> Some(o.init)

LastWins(pairs, o) ==
    /\ \A k \in ValueKeys :
         LastIndex(pairs, {k}) # 0 =>
             FieldOf(o, k) = pairs[LastIndex(pairs, {k})].value
    /\ LastIndex(pairs, {K_ro, K_rw}) # 0 =>
         ("MS_RDONLY" \in o.rootfsflags
            <=> pairs[LastIndex(pairs, {K_ro, K_rw})].key = K_ro)

\* C2: when from_string returns Ok without NFS resolution, each of root,
\* rootfstype, rootflags, nfsroot, init that was given holds the value of the
\* last token with that key, and the read-only bit is set exactly when the
\* last of the ro/rw tokens is ro.  Stated of the pairs handed to
\* parse_option, and, for command lines without quotes, of the tokens as
\* written that are followed by a separator.
C2_LastOccurrenceWins ==
    (Returned /\ result.ok /\ ~NfsCase) =>
        /\ LastWins(dispatched, result.v)
        /\ QuoteFree => LastWins(Written, result.v)

\* root= twice with different values, and rw followed by ro or ro by rw
C2_Witness ==
    /\ Returned /\ result.ok /\ ~NfsCase /\ QuoteFree
    /\ \E i, j \in 1..Len(Written) :
         /\ i < j
         /\ Written[i].key = Written[j].key
         /\ Written[i].key \in ValueKeys
         /\ Written[i].value # Written[j].value
         /\ FieldOf(result.v, Written[j].key) = Written[j].value

\* C3 (as claimed): a token key="text" followed by a separator is dispatched
\* once, with key `key` and value `text`, the quotes removed and the spaces
\* between them kept: the i-th pair handed to parse_option is the pair of
\* the i-th token as written also when that token is quoted, and a parse
\* that returns Ok has dispatched every token.
C3_QuotedValueKept ==
    Returned =>
        \A i \in 1..Len(WrittenTokens) :
            WrittenTokens[i].quoted =>
                /\ Len(dispatched) >= i => dispatched[i] = Written[i]
                /\ result.ok => Len(dispatched) = Len(Written)

\* What the scanner does with quotes: each '"' moves the start of the slice
\* past itself, so the value of key="text" is what follows the closing quote
C3_QuotedValueLost ==
    Returned =>
        \A i \in 1..Len(WrittenTokens) :
            (WrittenTokens[i].quoted /\ Len(dispatched) >= i) =>
                dispatched[i] = [key |-> WrittenTokens[i].key,
                                 value |-> Some(<<>>)]

\* C4: in a command line without quotes, a token k=v whose v contains '='
\* is dispatched with key k and value v, every later '=' included (when the
\* parse gets as far as that token, which it does when it returns Ok).
C4_FirstEqualsSplits ==
    (Returned /\ QuoteFree) =>
        \A i \in 1..Len(Written) :
            (Written[i].value # None /\ Contains(Written[i].value[1], "=")) =>
                /\ Len(dispatched) >= i => dispatched[i] = Written[i]
                /\ result.ok => Len(dispatched) >= i

\* rootflags=t=u,c=l arrives as written
C4_Witness ==
    /\ Returned /\ result.ok /\ QuoteFree
    /\ result.v.rootflags = Some(V_trans)
    /\ \E i \in 1..Len(dispatched) :
         dispatched[i] = [key |-> K_rootflags, value |-> Some(V_trans)]

RequiredKeys == {K_root, K_rootfstype, K_nfsroot, K_init}

NoValue(pair) == pair.key \in RequiredKeys /\ pair.value = None

\* C5: when root, rootfstype, nfsroot or init is dispatched without a value,
\* from_string returns the error naming that key and no options, and that
\* token is the last one processed; in a command line without quotes a
\* written token of that kind makes the parse fail at or before it.
C5_MissingValueFails ==
    Returned =>
        /\ \A i \in 1..Len(dispatched) :
             NoValue(dispatched[i]) =>
                 /\ result = Err([kind |-> "must have an argument",
                                  key |-> dispatched[i].key])
                 /\ i = Len(dispatched)
        /\ QuoteFree =>
             \A i \in 1..Len(Written) :
                 NoValue(Written[i]) => ~result.ok /\ Len(dispatched) <= i

\* A key without its value between two other tokens: the parse stops there
C5_Witness ==
    /\ Returned /\ QuoteFree
    /\ Len(Written) = 3
    /\ NoValue(Written[2])
    /\ Len(dispatched) = 2
    /\ ~result.ok

KeysOf(pairs) == {pairs[i].key : i \in 1..Len(pairs)}

Defaults ==
    [root |-> None, rootfstype |-> None, rootflags |-> None,
     rootfsflags |-> {"MS_RDONLY"}, nfsroot |-> None, init |-> SBIN_INIT,
     cleanup |-> TRUE]

KeepsDefaults(keys, o) ==
    /\ \A k \in ValueKeys : k \notin keys => FieldOf(o, k) = FieldOf(Defaults, k)
    /\ (K_ro \notin keys /\ K_rw \notin keys) =>
           o.rootfsflags = Defaults.rootfsflags
    /\ o.cleanup = Defaults.cleanup
    /\ o.rootfsflags \subseteq {"MS_RDONLY"}

\* C6: when from_string returns Ok without NFS resolution, every field whose
\* key was not given keeps its default (root, rootfstype, rootflags, nfsroot
\* absent; read-only bit set; init /sbin/init; cleanup true): ro and rw,
\* with or without a value, change the read-only bit alone, and other keys
\* change nothing.
C6_DefaultsKept ==
    (Returned /\ result.ok /\ ~NfsCase) =>
        /\ KeepsDefaults(KeysOf(dispatched), result.v)
        /\ KeepsDefaults({items[i].key : i \in 1..Len(items)}, result.v)

\* rw=1 and an unrecognized key: the read-only bit is cleared, the rest is
\* the default
C6_Witness ==
    /\ Returned /\ result.ok
    /\ [key |-> K_rw, value |-> Some(V_one)] \in
           {dispatched[i] : i \in 1..Len(dispatched)}
    /\ K_z \in KeysOf(dispatched)
    /\ result.v = [Defaults EXCEPT !.rootfsflags = {}]

\* s is host:path or host:path,opts with the ':' at 0-based index a and the
\* first ',' at index b (b = Len(s): no opts)
HostForm(s, a, b) ==
    /\ a < b
    /\ s[a + 1] = ":"
    /\ \A j \in 1..a : s[j] \notin {":", ","}
    /\ \A j \in (a + 1)..b : s[j] # ","
    /\ b < Len(s) => s[b + 1] = ","

\* s is path or path,opts, no ':' before the first ',' at index b
PathForm(s, b) ==
    /\ \A j \in 1..b : s[j] \notin {":", ","}
    /\ b < Len(s) => s[b + 1] = ","

\* nolock[,opts],addr=host for the specifier s with its first ',' at index b
NfsFlags(s, b, host) ==
    NOLOCK \o (IF b < Len(s) THEN <<",">> \o SubSeq(s, b + 2, Len(s)) ELSE <<>>)
           \o ADDR \o host

NfsResolved(root, flags) ==
    Ok([scanned EXCEPT !.root = Some(root), !.rootfstype = Some(NFS),
                       !.rootflags = Some(flags)])

\* C7: when the scanned root is /dev/nfs or the scanned rootfstype is nfs and
\* nfsroot is host:path or host:path,opts, from_string returns Ok with
\* root = host:path, rootfstype = nfs, rootflags = nolock[,opts],addr=host,
\* and every other field (the raw nfsroot, the read-only bit, init) as
\* scanned; /proc/net/pnp is not read.
C7_NfsWithHost ==
    (Returned /\ ScanCompleted /\ NfsCase /\ scanned.nfsroot # None) =>
        LET spec == scanned.nfsroot[1]
        IN  \A a \in 0..Len(spec) : \A b \in 0..Len(spec) :
              HostForm(spec, a, b) =>
                  /\ result = NfsResolved(SubSeq(spec, 1, b),
                                  NfsFlags(spec, b, SubSeq(spec, 1, a)))
                  /\ pnp = NotRead

\* root=/dev/nfs nfsroot=h:/p,v3,t rw
C7_Witness ==
    /\ Returned /\ result.ok
    /\ scanned.root = Some(DEV_NFS)
    /\ scanned.nfsroot = Some(V_nfs_full)
    /\ result.v.root = Some(<<"h", ":", "/", "p">>)
    /\ result.v.rootflags =
           Some(NOLOCK \o <<",", "v", "3", ",", "t">> \o ADDR \o <<"h">>)
    /\ result.v.rootfsflags = {}

IsBootserverLine(l) ==
    /\ Len(l) > Len(BOOTSERVER)
    /\ SubSeq(l, 1, Len(BOOTSERVER) + 1) = BOOTSERVER \o <<" ">>

\* C8: when NFS resolution runs on an nfsroot without host (no ':' before
\* the first ','), /proc/net/pnp is read; the value of its first bootserver
\* line is the host: root = bootserver:path and rootflags ends in
\* addr=bootserver; without a bootserver line the result is Ok with
\* root = path and rootflags ending in `addr=`; when the file cannot be read
\* from_string fails.
C8_NfsFromBootserver ==
    (Returned /\ ScanCompleted /\ NfsCase /\ scanned.nfsroot # None) =>
        LET spec == scanned.nfsroot[1]
        IN  \A b \in 0..Len(spec) :
              PathForm(spec, b) =>
                  /\ pnp # NotRead
                  /\ pnp[1] = None => ~result.ok
                  /\ pnp[1] # None =>
                       LET lines == pnp[1][1]
                           hits == {i \in 1..Len(lines) :
                                        IsBootserverLine(lines[i])}
                           first == CHOOSE i \in hits : \A j \in hits : i <= j
                           host == SubSeq(lines[first], Len(BOOTSERVER) + 2,
                                          Len(lines[first]))
                           path == SubSeq(spec, 1, b)
                       IN  IF hits = {}
                           THEN result = NfsResolved(path,
                                             NfsFlags(spec, b, <<>>))
                           ELSE result = NfsResolved(host \o <<":">> \o path,
                                             NfsFlags(spec, b, host))

\* nfsroot=/p,v3 with a table whose first bootserver line names s and whose
\* second names t
C8_Witness ==
    /\ Returned /\ result.ok
    /\ scanned.nfsroot = Some(V_nfs_path_opts)
    /\ pnp = Some(Some(<<L_proto, L_bootserver_s, L_bootserver_t>>))
    /\ result.v.root = Some(<<"s", ":", "/", "p">>)
    /\ result.v.rootflags = Some(NOLOCK \o <<",", "v", "3">> \o ADDR \o <<"s">>)

\* t occurs in s as a contiguous piece
HasPiece(s, t) ==
    \E i \in 0..(Len(s) - Len(t)) : SubSeq(s, i + 1, i + Len(t)) = t

EndsWith(s, t) ==
    Len(t) <= Len(s) /\ SubSeq(s, Len(s) - Len(t) + 1, Len(s)) = t

\* The part of an nfsroot specifier before its first ','
BeforeComma(s) ==
    LET commas == {i \in 1..Len(s) : s[i] = ","}
    IN  IF commas = {} THEN s
        ELSE SubSeq(s, 1, (CHOOSE i \in commas : \A j \in commas : i <= j) - 1)

\* C9: whenever the scan ended with root = /dev/nfs or rootfstype = nfs, an
\* Ok result has rootfstype = nfs, rootflags beginning with nolock and
\* containing ,addr= in place of the scanned rootflags, and root made of
\* nfsroot's path part (with the host in front); the three fields are not
\* left as scanned; without nfsroot the parse fails.
C9_NfsRewritten ==
    (Returned /\ ScanCompleted /\ NfsCase) =>
        /\ scanned.nfsroot = None => ~result.ok
        /\ result.ok =>
             /\ scanned.nfsroot # None
             /\ result.v.rootfstype = Some(NFS)
             /\ result.v.rootflags # None
             /\ IsPrefix(NOLOCK, result.v.rootflags[1])
             /\ HasPiece(result.v.rootflags[1], ADDR)
             /\ result.v.rootflags # scanned.rootflags
             /\ result.v.root # None
             /\ EndsWith(result.v.root[1], BeforeComma(scanned.nfsroot[1]))
             /\ result.v.root # Some(DEV_NFS)
             /\ <<result.v.root, result.v.rootfstype, result.v.rootflags>>
                    # <<scanned.root, scanned.rootfstype, scanned.rootflags>>

\* root=/dev/nfs rootflags=z nfsroot=h:/p: all three fields replaced
C9_Witness ==
    /\ Returned /\ result.ok
    /\ scanned.root = Some(DEV_NFS)
    /\ scanned.rootfstype = None
    /\ scanned.rootflags = Some(V_z)
    /\ result.v.root = Some(V_nfs_host)
    /\ result.v.rootflags = Some(NOLOCK \o ADDR \o <<"h">>)

\* The handler invocations the pairs call for: for each pair with an
\* unrecognized key, handlers 1..n in registration order
RECURSIVE ExpectedCalls(_, _)
ExpectedCalls(pairs, n) ==
    IF pairs = <<>>
    THEN <<>>
    ELSE LET last == pairs[Len(pairs)]
         IN  ExpectedCalls(SubSeq(pairs, 1, Len(pairs) - 1), n)
             \o (IF last.key \in RecognizedKeys THEN <<>>
                 ELSE [h \in 1..n |-> [cb |-> h, key |-> last.key,
                                        value |-> last.value]])

\* A handler as in tests::test_callbacks fails on its key without a value
HandlerFails(call) ==
    call.key = callbacks[call.cb].wants /\ call.value = None

\* C10 (as claimed): for every dispatched token with an unrecognized key
\* each registered handler is invoked exactly once with the token's pair,
\* handlers in registration order, tokens left to right, and no recognized
\* key is offered to a handler.
C10_EveryHandlerOnce ==
    Returned => calls = ExpectedCalls(dispatched, Len(callbacks))

\* C10 (amended): the handler invocations are those of the dispatched
\* unrecognized tokens, every handler in registration order, tokens left to
\* right, up to and including the first invocation that returns an error:
\* that error ends the parse, so the handlers registered after the failing
\* one are not invoked for that token.  Each invocation carries the token's
\* pair, whose key is the key from_string took for the token and whose value
\* is present iff the token had an '=', and no recognized key is offered to
\* a handler.
C10_HandlersUntilError ==
    Returned =>
        /\ IsPrefix(calls, ExpectedCalls(dispatched, Len(callbacks)))
        /\ \A i \in 1..(Len(calls) - 1) : ~HandlerFails(calls[i])
        /\ calls # ExpectedCalls(dispatched, Len(callbacks)) =>
             /\ calls # <<>>
             /\ HandlerFails(calls[Len(calls)])
        /\ (calls # <<>> /\ HandlerFails(calls[Len(calls)])) =>
             result = Err([kind |-> "must have an argument",
                           key |-> calls[Len(calls)].key])
        /\ Len(dispatched) <= Len(KeyedTokens)
        /\ \A i \in 1..Len(dispatched) :
             /\ dispatched[i].key = KeySeen(KeyedTokens[i])
             /\ dispatched[i].value = None <=> ~KeyedTokens[i].hasval

\* y=v is offered to both handlers, then x without a value fails in the
\* first handler and the second is not invoked
C10_Witness ==
    /\ Returned
    /\ Len(callbacks) = 2
    /\ calls = <<[cb |-> 1, key |-> K_y, value |-> Some(V_v)],
                 [cb |-> 2, key |-> K_y, value |-> Some(V_v)],
                 [cb |-> 1, key |-> K_x, value |-> None]>>
    /\ ~result.ok

\* C11 (as claimed): a handler is invoked only with the key it asked for,
\* never with another unrecognized key of the command line.
C11_OnlyRequestedKeys ==
    Returned =>
        \A i \in 1..Len(calls) : calls[i].key = callbacks[calls[i].cb].wants

\* C11 (amended): handlers do not register keys: every unrecognized key that
\* is dispatched is passed to every registered handler, also to a handler
\* that does nothing with it, and it is the handler that ignores the keys
\* it does not handle (it returns Ok for them); only the recognized keys are
\* never passed to a handler.
C11_EveryUnrecognizedKeyPassed ==
    Returned =>
        /\ \A i \in 1..Len(calls) :
             /\ calls[i].key \notin RecognizedKeys
             /\ \E j \in 1..Len(dispatched) :
                    dispatched[j] = [key |-> calls[i].key,
                                     value |-> calls[i].value]
             /\ calls[i].key # callbacks[calls[i].cb].wants =>
                    CallbackResult(callbacks[calls[i].cb], calls[i].key,
                                   calls[i].value).ok
        /\ result.ok =>
             \A j \in 1..Len(dispatched) : \A h \in 1..Len(callbacks) :
                 dispatched[j].key \notin RecognizedKeys =>
                     \E i \in 1..Len(calls) :
                         calls[i] = [cb |-> h, key |-> dispatched[j].key,
                                     value |-> dispatched[j].value]

\* z is passed to the handler of x and to the handler of y, and the parse
\* succeeds
C11_Witness ==
    /\ Returned /\ result.ok
    /\ Len(callbacks) = 2
    /\ callbacks[1].wants = K_x /\ callbacks[2].wants = K_y
    /\ calls = <<[cb |-> 1, key |-> K_z, value |-> None],
                 [cb |-> 2, key |-> K_z, value |-> None]>>

\* C12 (as claimed): when a handler fails on an unrecognized key, every
\* handler registered after it is still invoked with the same pair.
C12_IterationNotHalted ==
    Returned =>
        \A i \in 1..Len(calls) :
            HandlerFails(calls[i]) =>
                \A h \in (calls[i].cb + 1)..Len(callbacks) :
                    \E j \in (i + 1)..Len(calls) :
                        calls[j] = [calls[i] EXCEPT !.cb = h]

\* C12 (amended): when a handler fails on an unrecognized key, handler
\* iteration for that key is halted: the failing invocation is the last one,
\* no handler registered after the failing one is invoked with that pair,
\* the token is the last one dispatched and from_string returns the
\* handler's error.
C12_FailureHaltsIteration ==
    Returned =>
        \A i \in 1..Len(calls) :
            HandlerFails(calls[i]) =>
                /\ i = Len(calls)
                /\ \A j \in 1..Len(calls) :
                       calls[j].cb > calls[i].cb =>
                           \E k \in 1..(Len(dispatched) - 1) :
                               dispatched[k].key = calls[j].key
                /\ dispatched[Len(dispatched)] =
                       [key |-> calls[i].key, value |-> calls[i].value]
                /\ result = Err([kind |-> "must have an argument",
                                 key |-> calls[i].key])

\* x without a value fails in the first of two handlers: one invocation only
C12_Witness ==
    /\ Returned
    /\ Len(callbacks) = 2
    /\ calls = <<[cb |-> 1, key |-> K_x, value |-> None]>>
    /\ result = Err([kind |-> "must have an argument", key |-> K_x])

\* The strategies of root preparation in the order the claim gives, those
\* of the build
StrategyOrder == <<"prepare_dmverity", "prepare_9pfs_gadget">>

BuildStrategies ==
    LET InBuild(n) == \/ n = "prepare_dmverity" /\ "dmverity" \in features
                      \/ n = "prepare_9pfs_gadget" /\ "usb9pfs" \in features
    IN  SelectKeep(StrategyOrder, InBuild)

\* The strategy invocations so far, with what each reported
StrategyCalls ==
    LET IsStrategy(o) == o.op \in {"prepare_dmverity", "prepare_9pfs_gadget"}
    IN  SelectKeep(ops, IsStrategy)

C13_State ==
    LET sc == StrategyCalls
        names == [i \in 1..Len(sc) |-> sc[i].op]
    IN  /\ IsPrefix(names, BuildStrategies)
        /\ \A i \in 1..(Len(sc) - 1) : sc[i].arg = "not applicable"
        /\ \A i \in 1..Len(ops) :
             (ops[i].op \in {"prepare_dmverity", "prepare_9pfs_gadget"}
              /\ ops[i].arg = "err") =>
                 /\ i = Len(ops)
                 /\ run_result = "err"
                 /\ pc = "done"
                 /\ \A j \in 1..Len(ops) : ops[j].phase # "mount_root"
        /\ \A i \in 1..Len(ops) :
             (ops[i].op \in {"prepare_dmverity", "prepare_9pfs_gadget"}
              /\ ops[i].arg = "handled") =>
                 \A j \in (i + 1)..Len(ops) : ops[j].phase # "prepare_aux"
        /\ (\E k \in 1..Len(done_log) : done_log[k] = "prepare_aux") =>
             \/ sc # <<>> /\ sc[Len(sc)].arg = "handled"
             \/ names = BuildStrategies

C13_Step ==
    (pc = "prepare_aux" /\ pc' = "mount_root"
     /\ \A i \in 1..Len(ops') :
            ops'[i].op \in {"prepare_dmverity", "prepare_9pfs_gadget"} =>
                ops'[i].arg = "not applicable")
        => ctx_options' = ctx_options

\* C13: root preparation invokes prepare_dmverity and then
\* prepare_9pfs_gadget (those compiled in); a strategy is invoked only when
\* every strategy before it reported `not applicable`; after `handled` no
\* strategy is invoked; a strategy's error is the last operation of the
\* boot and no root mount is attempted; when the phase succeeds without a
\* strategy having handled, every strategy was tried and the options are
\* unchanged.
C13_StrategiesInOrder == [](C13_State) /\ [][C13_Step]_vars

\* dm-verity did not apply, the USB gadget handled, and the boot went on
C13_Witness ==
    /\ Len(StrategyCalls) = 2
    /\ StrategyCalls[1].op = "prepare_dmverity"
    /\ StrategyCalls[1].arg = "not applicable"
    /\ StrategyCalls[2].op = "prepare_9pfs_gadget"
    /\ StrategyCalls[2].arg = "handled"
    /\ pc = "mount_root"

NetworkRoot == ctx_options.rootfstype \in {Some(NFS), Some(NINE_P)}

\* C14: in the root-mount phase the mount on /root of a root that is neither
\* nfs nor 9p is issued only after a wait_for_device of that phase returned
\* Ok, a failed wait_for_device is followed by no mount, and for nfs and 9p
\* the phase performs no wait_for_device.
C14_MountAfterDevicePoll ==
    \A i \in 1..Len(ops) :
        /\ (ops[i].phase = "mount_root" /\ ops[i].op = "mount") =>
             IF NetworkRoot
             THEN \A j \in 1..Len(ops) :
                      ~(ops[j].phase = "mount_root"
                        /\ ops[j].op = "wait_for_device")
             ELSE \E j \in 1..(i - 1) :
                      /\ ops[j].phase = "mount_root"
                      /\ ops[j].op = "wait_for_device"
                      /\ ops[j].ok
        /\ (ops[i].phase = "mount_root" /\ ops[i].op = "wait_for_device"
            /\ ~ops[i].ok) => i = Len(ops)

----------------------------------------------------------------------------
(* Properties of wait_for_device                                           *)

WaitReturned == w_pc \in {"ok", "timeout"}

C15_State ==
    /\ w_checks <= 1000
    /\ w_pc = "ok" => /\ w_hits = 1
                      /\ w_sleeps = w_checks - 1
    /\ w_pc # "ok" => w_hits = 0
    /\ w_pc = "timeout" => /\ w_checks = 1000
                           /\ w_sleeps = 1000
                           /\ w_slept = 1000 * 5

C15_Step ==
    /\ WaitReturned => UNCHANGED <<w_pc, w_checks, w_sleeps, w_slept>>
    /\ w_checks' # w_checks => w_sleeps = w_checks
    /\ w_sleeps' # w_sleeps => /\ w_sleeps' = w_checks
                               /\ w_slept' = w_slept + 5

\* C15: wait_for_device returns Ok at the first existence check that finds
\* the path and makes no check or sleep after it; it returns the timeout
\* error only after 1000 failed checks, each followed by one sleep of 5 ms;
\* it never makes more than 1000 checks, and it always returns.
C15_WaitBounded ==
    /\ [](C15_State)
    /\ [][C15_Step]_vars
    /\ <>(WaitReturned)

\* the path appeared while the caller waited: some checks failed and were
\* slept after, then one found the path
C15_Witness ==
    /\ w_pc = "ok"
    /\ w_checks = 3
    /\ w_sleeps = 2

\* the path never appeared
C15_WitnessTimeout == w_pc = "timeout" /\ w_checks = 1000

----------------------------------------------------------------------------
(* Properties of mount_move                                                *)

IsMove(o) == o.phase = "switch_root" /\ o.op = "mount_move"

IsRemove(o) == o.phase = "switch_root" /\ o.op = "remove_dir"

\* C16: a source directory is removed only after the move of that source
\* succeeded and only when cleanup was true; a failed move is the last thing
\* done, leaves its source in place and makes the phase fail; with cleanup
\* false no directory is removed.
C16_RemoveAfterMove ==
    /\ \A i \in 1..Len(ops) :
         IsRemove(ops[i]) =>
           /\ i > 1
           /\ IsMove(ops[i - 1])
           /\ ops[i - 1].ok
           /\ ops[i - 1].arg.src = ops[i].arg
           /\ ops[i - 1].arg.cleanup
    /\ \A i \in 1..Len(ops) :
         (IsMove(ops[i]) /\ ~ops[i].ok) =>
           /\ i = Len(ops)
           /\ run_result = "err"
           /\ \A j \in 1..Len(ops) :
                IsRemove(ops[j]) => ops[j].arg # ops[i].arg.src
    /\ \A i \in 1..Len(ops) :
         (IsMove(ops[i]) /\ ~ops[i].arg.cleanup) =>
           \A j \in 1..Len(ops) : ~IsRemove(ops[j])

\* /dev was moved and removed, then the move of /sys failed
C16_Witness ==
    \E i \in 1..Len(ops) :
        /\ i + 2 = Len(ops)
        /\ IsMove(ops[i]) /\ ops[i].ok /\ ops[i].arg.src = "/dev"
        /\ IsRemove(ops[i + 1]) /\ ops[i + 1].ok
        /\ IsMove(ops[i + 2]) /\ ~ops[i + 2].ok /\ ops[i + 2].arg.src = "/sys"

----------------------------------------------------------------------------
(* Properties of start_init                                                *)

IsExecv(o) == o.phase = "start_init" /\ o.op = "execv"

\* C17: the argument vector passed to execv is the configured init path
\* followed by the process's own arguments after its argv[0], in their
\* order and unmodified, and the program path passed is element 0 of it.
C17_ArgvPassedOn ==
    \A i \in 1..Len(ops) :
        IsExecv(ops[i]) =>
            LET own == args_os[1]
                argv == ops[i].arg.argv
            IN  /\ Len(argv) = 1 + (IF own = <<>> THEN 0 ELSE Len(own) - 1)
                /\ argv[1] = ctx_options.init
                /\ \A k \in 2..Len(own) : argv[k] = own[k]
                /\ ops[i].arg.path = argv[1]

\* execv was called by a process started with two different arguments
C17_Witness ==
    \E i \in 1..Len(ops) :
        /\ IsExecv(ops[i])
        /\ Len(ops[i].arg.argv) = 3
        /\ ops[i].arg.argv[2] # ops[i].arg.argv[3]
        /\ args_os = Some(<<<<"r">>, <<"a">>, <<"b">>>>)

----------------------------------------------------------------------------
(* Properties of the finalizer                                             *)

\* C18: whenever the boot has ended fatally (console setup failed in
\* InitContext::new, a phase of run or the process replacement returned an
\* error, or a phase panicked) the finalizer has run at least once.
C18_FinalizerOnEveryFatalPath == exit # "no" => finalized >= 1

\* The fatal paths that begin after InitContext::new returned Ok
C18_AfterConstruction == exit \in {"error", "panic"} => finalized >= 1

----------------------------------------------------------------------------
(* Properties of prepare_dmverity                                          *)

IsDmCall(o) ==
    /\ o.phase = "prepare_aux"
    /\ o.op \in {"dm_dev_create", "dm_table_load", "dm_dev_suspend"}

\* The device-mapper control calls made so far, in order
DmCalls == SelectKeep(ops, IsDmCall)

\* The header of the message a control call passed
HeaderOf(o) == IF o.op = "dm_table_load" THEN o.arg.msg.header ELSE o.arg.msg

\* What prepare_dmverity reported, when it was called
DmReported ==
    LET IsDm(o) == o.phase = "prepare_aux" /\ o.op = "prepare_dmverity"
    IN  SelectKeep(ops, IsDm)

\* /dev/dm-<minor> for the device numbers 253:0 and 253:257
DmRootOf(dev) ==
    CASE dev = 64768 -> <<"/", "d", "e", "v", "/", "d", "m", "-", "0">>
      [] dev = 1113345 ->
             <<"/", "d", "e", "v", "/", "d", "m", "-", "2", "5", "7">>

\* C19: the control calls are made in the order create, load-table,
\* suspend, each at most once, on one file descriptor and with one UUID; a
\* failed call is the last one, makes prepare_dmverity return an error and
\* leaves root as the command line set it; prepare_dmverity reports
\* "handled" only after all three calls succeeded, and root then is
\* /dev/dm-<minor of the device suspend returned>, which it is in no other
\* case.
C19_ControlCallsInOrder ==
    LET dc == DmCalls
        names == [i \in 1..Len(dc) |-> dc[i].op]
        all_ok == Len(dc) = 3 /\ \A i \in 1..3 : dc[i].ok
    IN  /\ IsPrefix(names, <<"dm_dev_create", "dm_table_load",
                              "dm_dev_suspend">>)
        /\ \A i, j \in 1..Len(dc) :
             /\ dc[i].arg.fd = dc[j].arg.fd
             /\ HeaderOf(dc[i]).uuid = HeaderOf(dc[j]).uuid
        /\ \A i \in 1..Len(dc) :
             ~dc[i].ok => /\ i = Len(dc)
                          /\ DmReported # <<>>
                          /\ DmReported[1].arg = "err"
                          /\ run_result = "err"
        /\ DmReported # <<>> =>
             IF DmReported[1].arg = "handled"
             THEN /\ all_ok
                  /\ ctx_options.root = Some(DmRootOf(dc[3].arg.dev))
             ELSE ctx_options.root = result.v.root

\* All three calls succeeded and root is the new device
C19_Witness ==
    /\ Len(DmCalls) = 3
    /\ DmCalls[3].ok
    /\ DmCalls[3].arg.dev = 1113345
    /\ ctx_options.root = Some(DmRootOf(1113345))

\* The table load failed after the device was created
C19_WitnessFailure ==
    /\ Len(DmCalls) = 2
    /\ ~DmCalls[2].ok
    /\ ctx_options.root = result.v.root

\* C20: in every message of a control call the header's data_start is the
\* size of the header struct (312 bytes) and its data_size is the size of
\* the whole struct passed: the header alone for create and suspend, the
\* header, the target spec (40 bytes) and the 1024-byte parameter buffer for
\* load-table.
C20_HeaderSizes ==
    \A i \in 1..Len(ops) :
        IsDmCall(ops[i]) =>
            /\ HeaderOf(ops[i]).data_start = 312
            /\ HeaderOf(ops[i]).data_size =
                   IF ops[i].op = "dm_table_load" THEN 312 + 40 + 1024
                   ELSE 312

\* A boot that sent all three messages
C20_Witness ==
    /\ Len(DmCalls) = 3
    /\ HeaderOf(DmCalls[2]).data_size > HeaderOf(DmCalls[1]).data_size
    /\ HeaderOf(DmCalls[3]).data_start = HeaderOf(DmCalls[3]).data_size

----------------------------------------------------------------------------
(* Properties of the message fields                                        *)

IsCopy(o) == o.phase = "prepare_aux" /\ o.op = "copy_from_slice"

\* C21: every copy into a fixed-width field of a device-mapper message is
\* made with a length the field holds (uuid: at most 128 of 129 bytes, name:
\* 128, target type: 16, parameters: 1024), the length having been checked
\* before the copy is attempted, so that no copy is attempted with a longer
\* source.
C21_CopiesWithinCapacity ==
    \A i \in 1..Len(ops) :
        IsCopy(ops[i]) =>
            /\ ops[i].ok
            /\ ops[i].arg.len <= ops[i].arg.cap
            /\ ops[i].arg.field = "uuid" => ops[i].arg.len <= 128
            /\ ops[i].arg.field = "params" => ops[i].arg.len <= 1024

\* The operations a step added
Added == SubSeq(ops', Len(ops) + 1, Len(ops'))

IsExists(o) == o.phase = "prepare_aux" /\ o.op = "exists /verity-params"

C22_Step ==
    (pc = "prepare_aux" /\ ops' # ops /\ "dmverity" \in features) =>
        LET new == Added
            reported == {new[i].arg : i \in {j \in 1..Len(new) :
                                                new[j].op = "prepare_dmverity"}}
            absent == IsExists(new[1]) /\ ~new[1].arg
            NotApplicable ==
                \/ absent
                \/ ctx_options.root = None
                \/ ctx_options.rootfstype = Some(<<"n", "f", "s">>)
                \/ ctx_options.rootfstype = Some(<<"9", "p">>)
        IN  /\ IsExists(new[1])
            /\ NotApplicable <=> reported = {"not applicable"}
            /\ NotApplicable =>
                 /\ ctx_options' = ctx_options
                 /\ \A i \in 1..Len(new) :
                      /\ new[i].op # "wait_for_device"
                      /\ new[i].op # "open /dev/mapper/control"
                      /\ ~IsDmCall(new[i])
            /\ ~NotApplicable =>
                 /\ Len(new) >= 2
                 /\ new[2].op = "wait_for_device"

C22_WitnessApplies ==
    /\ DmReported # <<>>
    /\ DmReported[1].arg = "handled"
    /\ \E i \in 1..(Len(ops) - 1) :
          IsExists(ops[i]) /\ ops[i + 1].op = "wait_for_device"

----------------------------------------------------------------------------
(* Properties of the shutdown path                                         *)

\* The mount points of mountinfo under /oldroot, in the order listed
Listed ==
    LET Under(line) == Len(line) >= 5 /\ line[5][1] = "/oldroot"
        lines == SelectKeep(mountinfo, Under)
    IN  [i \in 1..Len(lines) |-> lines[i][5]]

Nested(inner, outer) == IsPrefix(outer, inner) /\ inner # outer

\* C23: umount_root unmounts the mount points listed under /oldroot in
\* descending path order, a nested one before the one it is nested in,
\* each listed one once; a failed unmount is the last one attempted and
\* makes shutdown return an error.
C23_UnmountNestedFirst ==
    /\ \A i, j \in 1..Len(umounted) :
         i < j =>
           /\ StrLeq(umounted[j].mountpoint, umounted[i].mountpoint)
           /\ ~Nested(umounted[j].mountpoint, umounted[i].mountpoint)
    /\ \A i \in 1..Len(umounted) :
         ~umounted[i].ok => i = Len(umounted) /\ sd_result = "err"
    /\ (sd_pc \in {"reboot", "done"} /\ sd_line = Len(mountinfo)
        /\ \A i \in 1..Len(umounted) : umounted[i].ok) =>
           /\ Len(umounted) = Len(Listed)
           /\ \A i \in 1..Len(Listed) :
                \E j \in 1..Len(umounted) : umounted[j].mountpoint = Listed[i]

----------------------------------------------------------------------------
(* Properties of the callbacks of run                                      *)

\* The callbacks of a phase invoked so far, in order
CallbacksOf(phase) ==
    LET IsCb(o) == o.phase = phase /\ o.op = "callback"
    IN  SelectKeep(ops, IsCb)

C24_State ==
    /\ \A phase \in {"post_setup", "post_root_mount"} :
         LET cbs == CallbacksOf(phase)
             registered == IF phase = "post_setup" THEN post_setup_cb
                           ELSE post_root_mount_cb
         IN  /\ Len(cbs) <= Len(registered)
             /\ \A i \in 1..Len(cbs) : cbs[i].arg.id = registered[i]
             /\ \A i, j \in 1..Len(cbs) :
                  cbs[i].arg.id = cbs[j].arg.id => i = j
    /\ \A i \in 1..Len(ops) :
         (ops[i].op = "callback" /\ ~ops[i].ok) =>
             /\ i = Len(ops)
             /\ run_result = "err"
             /\ phase_log[Len(phase_log)] = ops[i].phase

C24_Step ==
    \A phase \in {"post_setup", "post_root_mount"} :
        Len(CallbacksOf(phase))' > Len(CallbacksOf(phase)) =>
            LET cb == ops'[Len(ops')]
            IN  /\ Len(ops') = Len(ops) + 1
                /\ cb.arg.options = ctx_options
                /\ ctx_options' = cb.arg.left

\* C24: the callbacks of each list are invoked in registration order, each
\* at most once, with the options of the context (what a callback leaves
\* in them is what the context holds afterwards); a callback that returns
\* an error is the last thing run does: no later callback, no later phase.
C24_CallbacksInOrder == [](C24_State) /\ [][C24_Step]_vars

\* Two post-setup callbacks ran, the first cleared cleanup, and the second
\* post-root-mount callback failed
C24_Witness ==
    /\ Len(CallbacksOf("post_setup")) = 2
    /\ CallbacksOf("post_setup")[1].arg.options.cleanup
    /\ ~CallbacksOf("post_setup")[2].arg.options.cleanup
    /\ Len(CallbacksOf("post_root_mount")) = 2
    /\ ~CallbacksOf("post_root_mount")[2].ok

----------------------------------------------------------------------------
(* Properties of do_mount                                                  *)

IsMount(o) == o.phase = "mount_root" /\ o.op = "mount"

\* The text has a part that is exactly the value
Names(text, value) == \E k \in 1..Len(text) : text[k] = value

\* C25: the error of a failed mount names the source, the destination, the
\* filesystem type, the flag bits as a number and the option string.
C25_MountErrorNamesAll ==
    \A i \in 1..Len(ops) :
        (IsMount(ops[i]) /\ ~ops[i].ok) =>
            LET call == ops[i].arg
                text == call.err[1]
            IN  /\ call.err # <<>>
                /\ call.src # <<>> => Names(text, call.src[1])
                /\ Names(text, call.dst)
                /\ call.fstype # <<>> => Names(text, call.fstype[1])
                /\ Names(text, IF "MS_RDONLY" \in call.flags
                               THEN <<"0", "x", "1">> ELSE <<"0", "x", "0">>)
                /\ call.data # <<>> => Names(text, call.data[1])

\* The four parameters the message does name
C25_NamesAllButFstype ==
    \A i \in 1..Len(ops) :
        (IsMount(ops[i]) /\ ~ops[i].ok) =>
            LET call == ops[i].arg
                text == call.err[1]
            IN  /\ call.err # <<>>
                /\ call.src # <<>> => Names(text, call.src[1])
                /\ Names(text, call.dst)
                /\ Names(text, IF "MS_RDONLY" \in call.flags
                               THEN <<"0", "x", "1">> ELSE <<"0", "x", "0">>)
                /\ call.data # <<>> => Names(text, call.data[1])

----------------------------------------------------------------------------
(* Properties of switch_root with mount_systemd                            *)

\* The operations of switch_root, in order
Switch == SelectSeq(ops, LAMBDA o : o.phase = "switch_root")

IsDetect(o) == o.phase = "switch_root" /\ o.op = "exists /shutdown"

IsBind(o) ==
    /\ o.phase = "switch_root" /\ o.op = "mount"
    /\ "MS_BIND" \in o.arg.flags

\* The operation at index i of list succeeded and comes before index m
Before(list, i, m, name) == i < m /\ list[i].op = name /\ list[i].ok

C26_State ==
    LET list == Switch
    IN  \A d \in 1..Len(list) :
          IsDetect(list[d]) =>
            IF list[d].arg
            THEN /\ ~ctx_options.cleanup
                 /\ \A j \in 1..Len(list) :
                        list[j].op \notin {"current_exe", "unlink", "remove_dir"}
                 /\ \A m \in 1..Len(list) :
                        IsMove(list[m]) =>
                          /\ list[m].arg.cleanup = FALSE
                          /\ \E a, b, c \in (d + 1)..(m - 1) :
                               /\ Before(list, a, m, "mkdir /run")
                               /\ Before(list, b, m, "mkdir /oldroot")
                               /\ Before(list, c, m, "mount")
                               /\ IsBind(list[c])
                               /\ list[c].arg.src = Some(<<"/">>)
                               /\ list[c].arg.dst = <<"/root/run/initramfs">>
            ELSE \A j \in 1..Len(list) :
                    /\ ~IsBind(list[j])
                    /\ list[j].op \notin {"mkdir /run", "mkdir /oldroot"}

C26_Step ==
    (pc = "switch_root" /\ ops' # ops /\ "systemd" \in features) =>
        LET new == Added
            detected == \E d \in 1..Len(new) : IsDetect(new[d]) /\ new[d].arg
        IN  /\ detected => ~ctx_options'.cleanup
            /\ ~detected =>
                 /\ ctx_options' = ctx_options
                 /\ \A m \in 1..Len(new) :
                        IsMove(new[m]) => new[m].arg.cleanup = ctx_options.cleanup
                 /\ (\E m \in 1..Len(new) : IsMove(new[m])) =>
                        (ctx_options.cleanup <=>
                            \E u \in 1..Len(new) : new[u].op = "unlink")

\* C26: with systemd support, when /shutdown exists cleanup is false from
\* then on: no current_exe, no unlink and no remove_dir in switch_root, and
\* before the first move /run and /oldroot were made and / was bind-mounted
\* at /root/run/initramfs; when /shutdown does not exist the options are
\* left as they were, the cleanup decisions follow them, and nothing is
\* bind-mounted.
C26_ShutdownKeepsInitramfs == [](C26_State) /\ [][C26_Step]_vars

\* /shutdown was found and all of switch_root succeeded
C26_Witness ==
    /\ "systemd" \in features
    /\ \E d \in 1..Len(Switch) : IsDetect(Switch[d]) /\ Switch[d].arg
    /\ \E m \in 1..Len(Switch) : IsMove(Switch[m]) /\ Switch[m].ok
    /\ "switch_root" \in {done_log[i] : i \in 1..Len(done_log)}

\* /shutdown was not found and the executable was unlinked
C26_WitnessAbsent ==
    /\ "systemd" \in features
    /\ \E d \in 1..Len(Switch) : IsDetect(Switch[d]) /\ ~Switch[d].arg
    /\ \E u \in 1..Len(Switch) : Switch[u].op = "unlink" /\ Switch[u].ok

----------------------------------------------------------------------------
(* Properties of the order of switch_root                                  *)

\* The operations of list with a name in names, in order
Only(list, names) == SelectSeq(list, LAMBDA o : o.op \in names)

\* short is the beginning of long
Begins(long, short) ==
    /\ Len(short) <= Len(long)
    /\ \A i \in 1..Len(short) : short[i] = long[i]

MoveSources == <<"/dev", "/sys", "/proc">>

RootChange == <<"chdir /root", "chroot .", "chdir /">>

\* C27: the moves of switch_root are those of /dev, /sys, /proc, in that
\* order; chdir("/root"), chroot("."), chdir("/") come in that order and only
\* after three moves that succeeded; an operation of switch_root that failed
\* is the last operation of the run; execv is called only after a chroot
\* that succeeded.
C27_SwitchRootOrder ==
    LET list == Switch
        moves == Only(list, {"mount_move"})
        change == Only(list, {"chdir /root", "chroot .", "chdir /"})
    IN  /\ Begins(MoveSources, [i \in 1..Len(moves) |-> moves[i].arg.src])
        /\ Begins(RootChange, [i \in 1..Len(change) |-> change[i].op])
        /\ \A i \in 1..Len(list) :
              list[i].op \in {"chdir /root", "chroot .", "chdir /"} =>
                  /\ Len(moves) = 3
                  /\ \A m \in 1..i : IsMove(list[m]) => list[m].ok
                  /\ \A m \in (i + 1)..Len(list) : ~IsMove(list[m])
        /\ \A i \in 1..Len(ops) :
              (ops[i].phase = "switch_root" /\ ~ops[i].ok) => i = Len(ops)
        /\ \A i \in 1..Len(ops) :
              IsExecv(ops[i]) =>
                  \E c \in 1..(i - 1) :
                      /\ ops[c].phase = "switch_root"
                      /\ ops[c].op = "chroot ." /\ ops[c].ok

\* All of switch_root succeeded and execv was called
C27_Witness ==
    /\ Len(Only(Switch, {"mount_move"})) = 3
    /\ Len(Only(Switch, {"chdir /root", "chroot .", "chdir /"})) = 3
    /\ \E i \in 1..Len(ops) : IsExecv(ops[i])

\* The unlink failed
C27_WitnessUnlink ==
    \E i \in 1..Len(Switch) : Switch[i].op = "unlink" /\ ~Switch[i].ok

\* The second move failed
C27_WitnessMove ==
    /\ Len(Only(Switch, {"mount_move"})) = 2
    /\ \E i \in 1..Len(Switch) : IsMove(Switch[i]) /\ ~Switch[i].ok

----------------------------------------------------------------------------
(* Properties of the two strategies of prepare_aux                         *)

\* A strategy applies when it returns anything but Ok(false)
Applies(res) == res # Ok(FALSE)

\* What prepare_aux would return with the two strategies tried in the
\* other order
OtherOrder(options, env, f) ==
    LET g == Prepare9pfsGadget(options, f)
    IN  IF Applies(g.res)
        THEN [res |-> g.res, root |-> options.root]
        ELSE LET dm == PrepareDmverity(options, env)
             IN  [res |-> dm.res, root |-> dm.root]

BothStrategies == {"dmverity", "usb9pfs"}

C28_State ==
    (pc = "prepare_aux" /\ BothStrategies \subseteq features) =>
        \A env \in DmEnvs : \A f \in 0..Len(GadgetSteps) :
            LET dm == PrepareDmverity(ctx_options, env)
                g == Prepare9pfsGadget(ctx_options, f)
                r == PrepareAuxRun(ctx_options, features, env, f)
                o == OtherOrder(ctx_options, env, f)
            IN  /\ ~(Applies(dm.res) /\ Applies(g.res))
                /\ Applies(dm.res) =>
                       ctx_options.rootfstype # Some(NINE_P)
                /\ Applies(g.res) =>
                       /\ ctx_options.rootfstype = Some(NINE_P)
                       /\ ctx_options.rootflags # None
                       /\ ContainsStr(ctx_options.rootflags[1], TRANS_USBG)
                /\ r.res = o.res
                /\ r.root = o.root

C28_Step ==
    (pc = "prepare_aux" /\ ops' # ops) =>
        LET new == Added
            said(name) == {new[i].arg : i \in {j \in 1..Len(new) :
                                                  new[j].op = name}}
        IN  \/ said("prepare_dmverity") \subseteq {"not applicable"}
            \/ said("prepare_9pfs_gadget") \subseteq {"not applicable"}

\* C28: for the options prepare_aux is called with, every state of the
\* system and every failure of the gadget setup, prepare_dmverity and
\* prepare_9pfs_gadget do not both apply (dm-verity never with rootfstype 9p,
\* the gadget only with 9p and trans=usbg), and prepare_aux returns the same
\* result and leaves the same root with the two tried in either order.
C28_StrategiesExclusive == [](C28_State) /\ [][C28_Step]_vars

\* prepare_aux is about to run with /verity-params present for a 9p root
\* with trans=usbg: the gadget applies
C28_Witness ==
    /\ pc = "prepare_aux" /\ BothStrategies \subseteq features
    /\ Applies(Prepare9pfsGadget(ctx_options, 0).res)
    /\ ctx_options.root # None

\* prepare_aux is about to run and dm-verity applies
C28_WitnessVerity ==
    /\ pc = "prepare_aux" /\ BothStrategies \subseteq features
    /\ \E env \in DmEnvs : PrepareDmverity(ctx_options, env).res = Ok(TRUE)

\* Both were called: dm-verity found /verity-params and did not apply, the
\* gadget handled the root
C28_WitnessCalled ==
    /\ \E i \in 1..Len(ops) : IsExists(ops[i]) /\ ops[i].arg
    /\ \E i \in 1..Len(ops) :
          ops[i].op = "prepare_9pfs_gadget" /\ ops[i].arg = "handled"

----------------------------------------------------------------------------
(* Properties of the parsing of VERITY_DATA_SECTORS                        *)

IsReadParams(o) ==
    o.phase = "prepare_aux" /\ o.op = "read_file /verity-params" /\ o.ok

\* /verity-params as read has no VERITY_DATA_SECTORS that is a u64
BadSectors(o) ==
    ParseU64(VerityParams(o.arg[1], 1, NoVerityParams).data_sectors) = None

\* C29: when /verity-params was read and has no VERITY_DATA_SECTORS, or one
\* that is not an unsigned 64-bit number, prepare_dmverity reports an error
\* and dm_dev_create was not called.
C29_ParsedBeforeCreate ==
    \A i \in 1..Len(ops) :
        (IsReadParams(ops[i]) /\ BadSectors(ops[i])) =>
            /\ \A j \in 1..Len(DmReported) : DmReported[j].arg = "err"
            /\ \A j \in 1..Len(ops) : ops[j].op # "dm_dev_create"

\* What does hold then: an error is reported, and neither dm_table_load nor
\* dm_dev_suspend is called
C29_ParsedBeforeTableLoad ==
    \A i \in 1..Len(ops) :
        (IsReadParams(ops[i]) /\ BadSectors(ops[i])) =>
            /\ \A j \in 1..Len(DmReported) : DmReported[j].arg = "err"
            /\ \A j \in 1..Len(ops) :
                  ops[j].op \notin {"dm_table_load", "dm_dev_suspend"}

----------------------------------------------------------------------------
(* Properties of mount_root without a root                                 *)

\* The record of the error mount_root returns without a root
IsRootNotFound(o) ==
    /\ o.phase = "mount_root" /\ o.op = "mount_root" /\ ~o.ok
    /\ o.arg = "root= not found in /proc/cmdline"

C30_Step ==
    (pc = "mount_root" /\ ops' # ops /\ ctx_options.root = None) =>
        /\ Len(Added) = 1 /\ IsRootNotFound(Added[1])
        /\ run_result' = "err"
        /\ pc' = "done"
        /\ ctx_options' = ctx_options

C30_State ==
    \A i \in 1..Len(ops) :
        IsRootNotFound(ops[i]) =>
            /\ i = Len(ops)
            /\ ctx_options.root = None
            /\ run_result = "err"
            /\ \A j \in 1..Len(ops) :
                  ops[j].phase = "mount_root" =>
                      ops[j].op \notin {"create_dir /root", "setup_mountpoint",
                                        "mount"}
            /\ \A j \in 1..Len(phase_log) :
                  phase_log[j] \notin {"post_root_mount", "switch_root",
                                       "start_init"}

\* C30: mount_root called with no root returns the error "root= not found
\* in /proc/cmdline" and does nothing else: /root is not created and mount
\* is not called; run ends with that error, and neither the post-root-mount
\* callbacks nor switch_root nor start_init run.
C30_NoRootAborts == [](C30_State) /\ [][C30_Step]_vars

\* mount_root was called without a root
C30_Witness ==
    /\ ops # <<>> /\ IsRootNotFound(ops[Len(ops)])
    /\ pc = "done"

----------------------------------------------------------------------------
(* Properties of the dispatch of tokens                                    *)

\* The tokens of the command line that are followed by their separator
Terminated ==
    IF terminated THEN items ELSE SubSeq(items, 1, Len(items) - 1)

\* A key as the option it names: the double quotes are not part of it
Elided(key) == SelectSeq(key, LAMBDA c : c # "\"")

\* The keys of the tokens ts that are not empty, in order
NamedKeys(ts) ==
    LET full == SelectSeq(ts, LAMBDA t : Text(t) # <<>>)
    IN  [i \in 1..Len(full) |-> Elided(full[i].key)]

\* The file parse_nfsroot read, if it read one
PnpRead == IF pnp = NotRead THEN None ELSE pnp[1]

\* C31: from_string dispatches every token that is not empty and is
\* followed by its separator, once each and in the order of the command
\* line, and nothing else; a last token that is not followed by a separator
\* is not dispatched, and the result is the one of the command line without
\* that token.
C31_EveryTokenDispatchedOnce ==
    pstate = "returned" =>
        /\ [i \in 1..Len(dispatched) |-> dispatched[i].key]
               = NamedKeys(Terminated)
        /\ result = FromString(CmdlineOf(Terminated, TRUE), callbacks,
                               PnpRead).res

\* What does hold: the keys dispatched are those from_string takes for the
\* tokens followed by a separator, the empty ones left out, in order and up
\* to the token on which the parse failed; and a last token without
\* separator makes no difference to what is dispatched and returned.
C31_DispatchedAsScanned ==
    pstate = "returned" =>
        LET seen == SelectSeq([i \in 1..Len(Terminated) |->
                                  KeySeen(Terminated[i])],
                              LAMBDA k : k # <<>>)
            keys == [i \in 1..Len(dispatched) |-> dispatched[i].key]
            short == FromString(CmdlineOf(Terminated, TRUE), callbacks,
                                PnpRead)
        IN  /\ IF result.ok THEN keys = seen
               ELSE /\ Len(keys) <= Len(seen)
                    /\ keys = SubSeq(seen, 1, Len(keys))
            /\ result = short.res
            /\ dispatched = short.dispatched

====
